---- MODULE Spec2Model ----
\* Verification model of the sol2base bridge terminal:
\*   src/src/lib/bridge.ts      SolanaBridge (asset resolution, amount codec,
\*                              balance guard, bridge pipeline)
\*   src/unnamed/part_001       MainContent (staging, execution, command batch)
\* Text is modelled as a sequence of one-character strings, so that trimming,
\* pattern matching and digit arithmetic are computed, not assumed.
EXTENDS Integers, Sequences, FiniteSets, TLC

\* ------------------------------------------------------------------ bounds
MaxLen == 3
MaxDecimals == 2
MaxUnits == 12

\* ------------------------------------------------------------- text helpers

DigitChars == {"0", "1", "2", "3", "4", "5", "6", "7", "8", "9"}

IsDigit(c) == c \in DigitChars

IsSpace(c) == c = " "

DigitVal(c) ==
  CASE c = "0" -> 0 [] c = "1" -> 1 [] c = "2" -> 2 [] c = "3" -> 3
    [] c = "4" -> 4 [] c = "5" -> 5 [] c = "6" -> 6 [] c = "7" -> 7
    [] c = "8" -> 8 [] c = "9" -> 9

DigitChar(n) ==
  CASE n = 0 -> "0" [] n = 1 -> "1" [] n = 2 -> "2" [] n = 3 -> "3"
    [] n = 4 -> "4" [] n = 5 -> "5" [] n = 6 -> "6" [] n = 7 -> "7"
    [] n = 8 -> "8" [] n = 9 -> "9"

RECURSIVE Pow10(_)
Pow10(n) == IF n <= 0 THEN 1 ELSE 10 * Pow10(n - 1)

AllChars(s, P(_)) == \A i \in 1..Len(s) : P(s[i])

\* String.prototype.trim: strips white space at both ends.
RECURSIVE TrimLeft(_)
TrimLeft(s) == IF s # <<>> /\ IsSpace(Head(s)) THEN TrimLeft(Tail(s)) ELSE s

RECURSIVE TrimRight(_)
TrimRight(s) ==
  IF s # <<>> /\ IsSpace(s[Len(s)]) THEN TrimRight(SubSeq(s, 1, Len(s) - 1)) ELSE s

Trim(s) == TrimRight(TrimLeft(s))

\* BigInt(<digit string>): the integer a run of decimal digits denotes.
RECURSIVE DigitsToInt(_)
DigitsToInt(s) ==
  IF s = <<>> THEN 0 ELSE 10 * DigitsToInt(SubSeq(s, 1, Len(s) - 1)) + DigitVal(s[Len(s)])

\* BigInt.prototype.toString for a non-negative integer.
RECURSIVE NatToText(_)
NatToText(n) ==
  IF n < 10 THEN <<DigitChar(n)>> ELSE NatToText(n \div 10) \o <<DigitChar(n % 10)>>

RECURSIVE Zeros(_)
Zeros(n) == IF n <= 0 THEN <<>> ELSE <<"0">> \o Zeros(n - 1)

\* Index of the first "." of s, or 0.
RECURSIVE FirstDotFrom(_, _)
FirstDotFrom(s, i) ==
  IF i > Len(s) THEN 0 ELSE IF s[i] = "." THEN i ELSE FirstDotFrom(s, i + 1)

\* ------------------------------------------------------------- AmountCodec
\* ethers parseUnits(value, decimals) = FixedNumber.fromString(value, {decimals}).value:
\* the text must match /^(-?)([0-9]*)\.?([0-9]*)$/ with at least one digit; the
\* fraction is padded with zeros to `decimals` digits; digits beyond `decimals`
\* must all be zero ("too many decimals for format"); no rounding takes place.
ParseUnitsExact(value, decimals) ==
  LET neg   == value # <<>> /\ Head(value) = "-"
      body  == IF neg THEN Tail(value) ELSE value
      dot   == FirstDotFrom(body, 1)
      whole == IF dot = 0 THEN body ELSE SubSeq(body, 1, dot - 1)
      frac  == IF dot = 0 THEN <<>> ELSE SubSeq(body, dot + 1, Len(body))
      match == AllChars(whole, IsDigit) /\ AllChars(frac, IsDigit)
      padded == IF Len(frac) < decimals THEN frac \o Zeros(decimals - Len(frac)) ELSE frac
      excess == SubSeq(padded, decimals + 1, Len(padded))
      kept  == SubSeq(padded, 1, decimals)
      mag   == DigitsToInt((IF whole = <<>> THEN <<"0">> ELSE whole) \o kept)
  IN  IF ~match \/ Len(whole) + Len(frac) = 0
        THEN [ok |-> FALSE, value |-> 0, fault |-> "invalid FixedNumber string value"]
      ELSE IF ~AllChars(excess, LAMBDA c : c = "0")
        THEN [ok |-> FALSE, value |-> 0, fault |-> "too many decimals for format"]
      ELSE [ok |-> TRUE, value |-> IF neg THEN 0 - mag ELSE mag, fault |-> "none"]

\* A parseUnits that drops surplus fraction digits instead of refusing them.
ParseUnitsTruncating(value, decimals) ==
  LET r == ParseUnitsExact(value, decimals)
  IN  IF r.fault = "too many decimals for format"
        THEN LET dot  == FirstDotFrom(value, 1)
                 kept == SubSeq(value, 1, dot + decimals)
             IN  ParseUnitsExact(kept, decimals)
        ELSE r

parseUnits(value, decimals) == ParseUnitsExact(value, decimals)

\* ethers formatUnits(value, decimals) for value >= 0: at least one digit on each
\* side of the point, surplus zeros trimmed; no point at all when decimals = 0.
RECURSIVE TrimWholeZeros(_)
TrimWholeZeros(s) ==
  IF Len(s) >= 2 /\ s[1] = "0" /\ s[2] # "." THEN TrimWholeZeros(Tail(s)) ELSE s

RECURSIVE TrimFractionZeros(_)
TrimFractionZeros(s) ==
  IF Len(s) >= 2 /\ s[Len(s)] = "0" /\ s[Len(s) - 1] # "."
    THEN TrimFractionZeros(SubSeq(s, 1, Len(s) - 1))
    ELSE s

formatUnits(value, decimals) ==
  LET str    == NatToText(value)
      padded == IF Len(str) <= decimals THEN Zeros(decimals + 1 - Len(str)) \o str ELSE str
      index  == Len(padded) - decimals
      dotted == SubSeq(padded, 1, index) \o <<".">> \o SubSeq(padded, index + 1, Len(padded))
  IN  IF decimals = 0 THEN str ELSE TrimFractionZeros(TrimWholeZeros(dotted))

\* The body of the try block of parseAmountToUnits: what it returns or throws.
ParseAmountTry(amount, decimals) ==
  LET normalized == Trim(amount)
      parsed     == parseUnits(normalized, decimals)
  IN  IF normalized = <<>>
        THEN [ok |-> FALSE, units |-> 0, error |-> "Amount must be greater than zero."]
      ELSE IF ~parsed.ok
        THEN [ok |-> FALSE, units |-> 0, error |-> parsed.fault]
      ELSE IF parsed.value <= 0
        THEN [ok |-> FALSE, units |-> 0, error |-> "Amount must be greater than zero."]
      ELSE [ok |-> TRUE, units |-> parsed.value, error |-> "none"]

\* parseAmountToUnits without the test for a result <= 0.
ParseAmountUnchecked(amount, decimals) ==
  LET parsed == parseUnits(Trim(amount), decimals)
  IN  IF parsed.ok
        THEN [ok |-> TRUE, units |-> parsed.value, error |-> "none"]
        ELSE [ok |-> FALSE, units |-> 0, error |-> "Invalid amount. Provide a numeric value."]

\* parseAmountToUnits: the catch clause rethrows every failure of the try block
\* under one message.
parseAmountToUnits(amount, decimals) ==
  LET r == ParseAmountTry(amount, decimals)
  IN  IF r.ok THEN r
      ELSE [ok |-> FALSE, units |-> 0, error |-> "Invalid amount. Provide a numeric value."]

\* The amount handling of bridge(): the blank test on the trimmed text, then
\* parseAmountToUnits at the resolved decimals.
BridgeAmount(amount, decimals) ==
  LET trimmedAmount == Trim(amount)
  IN  IF trimmedAmount = <<>>
        THEN [ok |-> FALSE, units |-> 0, error |-> "Amount is required."]
        ELSE parseAmountToUnits(trimmedAmount, decimals)

\* ----------------------------------------------------------- more text helpers
UpperLetters ==
  <<"A", "B", "C", "D", "E", "F", "G", "H", "I", "J", "K", "L", "M",
    "N", "O", "P", "Q", "R", "S", "T", "U", "V", "W", "X", "Y", "Z">>

LowerLetters ==
  <<"a", "b", "c", "d", "e", "f", "g", "h", "i", "j", "k", "l", "m",
    "n", "o", "p", "q", "r", "s", "t", "u", "v", "w", "x", "y", "z">>

IsUpper(c) == \E i \in 1..26 : UpperLetters[i] = c

IsLower(c) == \E i \in 1..26 : LowerLetters[i] = c

LowerChar(c) ==
  IF IsUpper(c) THEN LowerLetters[CHOOSE i \in 1..26 : UpperLetters[i] = c] ELSE c

UpperChar(c) ==
  IF IsLower(c) THEN UpperLetters[CHOOSE i \in 1..26 : LowerLetters[i] = c] ELSE c

\* String.prototype.toLowerCase / toUpperCase.
\* A normalisation that keeps the text as written.
KeepCase(s) == s

ToLowerCase(s) == [i \in 1..Len(s) |-> LowerChar(s[i])]

ToUpperCase(s) == [i \in 1..Len(s) |-> UpperChar(s[i])]

RECURSIVE Repeat(_, _)
Repeat(c, n) == IF n <= 0 THEN <<>> ELSE <<c>> \o Repeat(c, n - 1)

IsHexChar(c) == IsDigit(c) \/ c \in {"a", "b", "c", "d", "e", "f", "A", "B", "C", "D", "E", "F"}

\* /^0x[a-fA-F0-9]{40}$/
EvmAddressLength == 40

\* An address test that takes any text that is not empty.
IsAnyText(s) == Len(s) > 0

IsEvmAddress(s) ==
  /\ Len(s) = 2 + EvmAddressLength
  /\ s[1] = "0" /\ s[2] = "x"
  /\ \A i \in 3..Len(s) : IsHexChar(s[i])

\* The base-58 alphabet of Solana addresses, in digit order.
Base58Alphabet ==
  <<"1", "2", "3", "4", "5", "6", "7", "8", "9",
    "A", "B", "C", "D", "E", "F", "G", "H", "J", "K", "L", "M", "N", "P", "Q",
    "R", "S", "T", "U", "V", "W", "X", "Y", "Z",
    "a", "b", "c", "d", "e", "f", "g", "h", "i", "j", "k", "m", "n", "o", "p",
    "q", "r", "s", "t", "u", "v", "w", "x", "y", "z">>

IsBase58Char(c) == \E i \in 1..Len(Base58Alphabet) : Base58Alphabet[i] = c

Base58Digit(c) == (CHOOSE i \in 1..Len(Base58Alphabet) : Base58Alphabet[i] = c) - 1

\* BASE58_MINT_REGEX = /^[1-9A-HJ-NP-Za-km-z]{32,44}$/
MintMinLength == 32
MintMaxLength == 44

IsMintPattern(s) ==
  /\ Len(s) >= MintMinLength /\ Len(s) <= MintMaxLength
  /\ AllChars(s, IsBase58Char)

\* new PublicKey(text): the base-58 digits are decoded to bytes (each leading "1"
\* is one zero byte, the rest is the big-endian number) and the key is accepted
\* only when exactly PublicKeyLength bytes come out.
PublicKeyLength == 32

\* bytes (little-endian) := bytes * 58 + carry
RECURSIVE MulAdd58(_, _)
MulAdd58(bytes, carry) ==
  IF bytes = <<>>
    THEN (IF carry = 0 THEN <<>> ELSE <<carry % 256>> \o MulAdd58(<<>>, carry \div 256))
    ELSE LET v == Head(bytes) * 58 + carry
         IN  <<v % 256>> \o MulAdd58(Tail(bytes), v \div 256)

RECURSIVE Base58Number(_, _)
Base58Number(s, bytes) ==
  IF s = <<>> THEN bytes ELSE Base58Number(Tail(s), MulAdd58(bytes, Base58Digit(Head(s))))

RECURSIVE LeadingOnes(_)
LeadingOnes(s) == IF s # <<>> /\ Head(s) = "1" THEN 1 + LeadingOnes(Tail(s)) ELSE 0

Base58DecodedLength(s) ==
  LET k == LeadingOnes(s)
  IN  k + Len(Base58Number(SubSeq(s, k + 1, Len(s)), <<>>))

IsPublicKeyText(s) ==
  /\ s # <<>>
  /\ AllChars(s, IsBase58Char)
  /\ Base58DecodedLength(s) = PublicKeyLength

\* ----------------------------------------------------------- optional values
\* A value that may be undefined/null: <<>> when absent, <<v>> when present.
None == <<>>

Some(v) == <<v>>

Has(o) == Len(o) > 0

Get(o) == o[1]

\* A coalescing that prefers its second operand.
CoalesceSecond(a, b) == IF Has(b) THEN b ELSE a

\* a ?? b
Coalesce(a, b) == IF Has(a) THEN a ELSE b

\* JavaScript truthiness of an optional text / optional number.
TruthyText(o) == Has(o) /\ Len(Get(o)) > 0

TruthyNumber(o) == Has(o) /\ Get(o) # 0

\* ------------------------------------------------------------ AssetResolver
NativeSymbol == <<"s", "o", "l">>

NativeDecimals == 9

TokenProgramId == "TOKEN_PROGRAM_ID"

NoOverrides == None

Overrides(mint, remote, decimals) ==
  Some([mint |-> mint, remote |-> remote, decimals |-> decimals])

\* overrides?.field
OverrideField(overrides, field) == IF Has(overrides) THEN Get(overrides)[field] ELSE None

\* this.environmentConfig.assets.find(asset => asset.symbol === normalizedSymbol)
RECURSIVE FindAsset(_, _)
FindAsset(assets, symbol) ==
  IF assets = <<>> THEN None
  ELSE IF Head(assets).symbol = symbol THEN Some(Head(assets))
  ELSE FindAsset(Tail(assets), symbol)

\* base?.field
BaseField(base, field) == IF Has(base) THEN Get(base)[field] ELSE None

\* forceSpl of resolveAssetDefinition: the three overrides are tested for
\* truthiness, so an override of decimals 0 does not count.
ForceSpl(isMintAddress, overrides) ==
  \/ isMintAddress
  \/ TruthyText(OverrideField(overrides, "mint"))
  \/ TruthyText(OverrideField(overrides, "remote"))
  \/ TruthyNumber(OverrideField(overrides, "decimals"))

\* type of resolveAssetDefinition.
AssetType(symbol, overrides, assets) ==
  LET rawSymbol        == Trim(symbol)
      normalizedSymbol == ToLowerCase(rawSymbol)
      base             == FindAsset(assets, normalizedSymbol)
  IN  IF \/ ForceSpl(IsMintPattern(rawSymbol), overrides)
         \/ (Has(base) /\ Get(base).type = "spl")
         \/ normalizedSymbol # NativeSymbol
        THEN "spl" ELSE "sol"

NoAsset ==
  [symbol |-> <<>>, label |-> <<>>, type |-> "none", decimals |-> None,
   remoteAddress |-> <<>>, mint |-> None, tokenProgram |-> None]

\* resolveAssetDefinition up to its first chain read: classification, overrides
\* over preset, the remote address checks, and for spl the mint checks. The
\* result says whether it threw (error), and whether chain reads follow (spl).
ResolvePrepare(symbol, overrides, assets) ==
  LET rawSymbol        == Trim(symbol)
      normalizedSymbol == ToLowerCase(rawSymbol)
      isMintAddress    == IsMintPattern(rawSymbol)
      base             == FindAsset(assets, normalizedSymbol)
      type             == AssetType(symbol, overrides, assets)
      mintAddress      == IF isMintAddress THEN Some(rawSymbol)
                          ELSE Coalesce(OverrideField(overrides, "mint"),
                                        BaseField(base, "mintAddress"))
      remoteOpt        == Coalesce(OverrideField(overrides, "remote"),
                                   BaseField(base, "remoteAddress"))
      remoteAddress    == IF Has(remoteOpt) THEN ToLowerCase(Get(remoteOpt)) ELSE <<>>
      decimals         == Coalesce(OverrideField(overrides, "decimals"),
                                   BaseField(base, "decimals"))
      asset == [symbol |-> IF isMintAddress THEN rawSymbol ELSE normalizedSymbol,
                label |-> IF Has(BaseField(base, "label")) THEN Get(BaseField(base, "label"))
                          ELSE ToUpperCase(normalizedSymbol),
                type |-> type,
                decimals |-> IF type = "sol" THEN Coalesce(decimals, Some(NativeDecimals))
                             ELSE decimals,
                remoteAddress |-> remoteAddress,
                mint |-> IF type = "spl" THEN mintAddress ELSE None,
                tokenProgram |-> IF type = "spl" THEN None ELSE Some(TokenProgramId)]
  IN  IF ~TruthyText(remoteOpt)
        THEN [error |-> "Remote Base token address is required.", asset |-> NoAsset]
      ELSE IF ~IsEvmAddress(remoteAddress)
        THEN [error |-> "Invalid remote token address.", asset |-> NoAsset]
      ELSE IF type = "spl" /\ ~TruthyText(mintAddress)
        THEN [error |-> "Mint address is required.", asset |-> NoAsset]
      ELSE IF type = "spl" /\ ~IsPublicKeyText(Get(mintAddress))
        THEN [error |-> "Invalid public key input", asset |-> NoAsset]
      ELSE [error |-> "none", asset |-> asset]

\* After getAccountInfo(mint): the owner of the mint account, when there is one,
\* is the token program.
WithAccountInfo(asset, accountInfo) ==
  [asset EXCEPT !.tokenProgram = accountInfo]

\* After getMint: its decimals, unless the lookup threw (swallowed).
WithMintInfo(asset, mintInfo) ==
  [asset EXCEPT !.decimals = IF Has(mintInfo) THEN mintInfo ELSE @]

\* An end of resolveAssetDefinition that falls back to the native decimals
\* for every kind of asset.
ResolveFinishDefaulting(asset) ==
  [error |-> "none",
   asset |-> [asset EXCEPT !.decimals = Coalesce(@, Some(NativeDecimals)),
                           !.tokenProgram = Coalesce(@, Some(TokenProgramId))]]

\* The end of resolveAssetDefinition: decimals must be known by now; the token
\* program defaults to TOKEN_PROGRAM_ID.
ResolveFinish(asset) ==
  IF ~Has(asset.decimals)
    THEN [error |-> "Unable to determine decimals.", asset |-> NoAsset]
    ELSE [error |-> "none",
          asset |-> [asset EXCEPT !.tokenProgram = Coalesce(@, Some(TokenProgramId))]]

\* -------------------------------------------------------------- CallEncoder
StartsWith(s, prefix) ==
  Len(s) >= Len(prefix) /\ SubSeq(s, 1, Len(prefix)) = prefix

DropFirst(s, n) == SubSeq(s, n + 1, Len(s))

\* [A-Za-z0-9_]
IsNameChar(c) == IsUpper(c) \/ IsLower(c) \/ IsDigit(c) \/ c = "_"

\* Length of the longest prefix of s made of characters satisfying P.
PrefixRun(s, P(_)) ==
  LET stops == {i \in 1..Len(s) : ~P(s[i])}
  IN  IF stops = {} THEN Len(s) ELSE (CHOOSE i \in stops : \A j \in stops : i <= j) - 1

\* "(" <anything> ")" to the end of the text: the text between the brackets.
IsBracketed(s) == Len(s) >= 2 /\ s[1] = "(" /\ s[Len(s)] = ")"

Unbracket(s) == SubSeq(s, 2, Len(s) - 1)

FunctionKeyword == <<"f", "u", "n", "c", "t", "i", "o", "n">>

DefaultFnName == <<"c", "u", "s", "t", "o", "m", "C", "a", "l", "l">>

\* functionPattern = /^function\s*(?:([A-Za-z0-9_]+)\s*)?\((.*)\)$/
\* The name group is greedy and optional; when it is absent fnName keeps its
\* default "customCall".
MatchFunctionPattern(s) ==
  LET afterKw   == DropFirst(s, Len(FunctionKeyword))
      r1        == DropFirst(afterKw, PrefixRun(afterKw, IsSpace))
      nameLen   == PrefixRun(r1, IsNameChar)
      name      == SubSeq(r1, 1, nameLen)
      r2        == DropFirst(r1, nameLen)
      r3        == DropFirst(r2, PrefixRun(r2, IsSpace))
  IN  IF StartsWith(s, FunctionKeyword) /\ IsBracketed(r3)
        THEN [matched |-> TRUE,
              fnName |-> IF nameLen > 0 THEN name ELSE DefaultFnName,
              params |-> Unbracket(r3)]
        ELSE [matched |-> FALSE, fnName |-> <<>>, params |-> <<>>]

\* A bare pattern whose name may be empty.
MatchNamelessPattern(s) ==
  LET nameLen == PrefixRun(s, IsNameChar)
      rest    == DropFirst(s, nameLen)
  IN  IF IsBracketed(rest)
        THEN [matched |-> TRUE, fnName |-> SubSeq(s, 1, nameLen), params |-> Unbracket(rest)]
        ELSE [matched |-> FALSE, fnName |-> <<>>, params |-> <<>>]

\* namedPattern = /^([A-Za-z0-9_]+)\((.*)\)$/
MatchNamedPattern(s) ==
  LET nameLen == PrefixRun(s, IsNameChar)
      rest    == DropFirst(s, nameLen)
  IN  IF nameLen > 0 /\ IsBracketed(rest)
        THEN [matched |-> TRUE, fnName |-> SubSeq(s, 1, nameLen), params |-> Unbracket(rest)]
        ELSE [matched |-> FALSE, fnName |-> <<>>, params |-> <<>>]

\* The selector parse of encodeCall: functionPattern first, namedPattern second.
ParseSelector(selector) ==
  LET parsedSelector == Trim(selector)
      functionMatch  == MatchFunctionPattern(parsedSelector)
  IN  IF functionMatch.matched THEN functionMatch ELSE MatchNamedPattern(parsedSelector)

\* String.prototype.split(",")
RECURSIVE SplitComma(_, _)
SplitComma(s, current) ==
  IF s = <<>> THEN <<current>>
  ELSE IF Head(s) = "," THEN <<current>> \o SplitComma(Tail(s), <<>>)
  ELSE SplitComma(Tail(s), Append(current, Head(s)))

\* A type list that keeps its empty entries.
RECURSIVE TrimOnly(_)
TrimOnly(parts) ==
  IF parts = <<>> THEN <<>> ELSE <<Trim(Head(parts))>> \o TrimOnly(Tail(parts))

\* params.split(",").map(t => t.trim()).filter(Boolean)
RECURSIVE TrimAndFilter(_)
TrimAndFilter(parts) ==
  IF parts = <<>> THEN <<>>
  ELSE LET t == Trim(Head(parts))
       IN  (IF t = <<>> THEN <<>> ELSE <<t>>) \o TrimAndFilter(Tail(parts))

ParamTypes(params) == TrimAndFilter(SplitComma(params, <<>>))

AddressType == <<"a", "d", "d", "r", "e", "s", "s">>
UintPrefix == <<"u", "i", "n", "t">>
IntPrefix == <<"i", "n", "t">>
BytesPrefix == <<"b", "y", "t", "e", "s">>

\* /^0x[0-9a-fA-F]*$/
IsHexText(s) ==
  Len(s) >= 2 /\ s[1] = "0" /\ s[2] = "x" /\ \A i \in 3..Len(s) : IsHexChar(s[i])

\* /^\d+$/
IsDigitText(s) == Len(s) > 0 /\ AllChars(s, IsDigit)

\* An argument check that lets every argument through.
ArgUnchecked(type, arg) == "none"

\* The per-type argument check of encodeCall: "none" or the error it throws.
ArgError(type, arg) ==
  IF type = AddressType
    THEN (IF IsEvmAddress(arg) THEN "none" ELSE "arg must be a valid 0x address.")
  ELSE IF StartsWith(type, UintPrefix) \/ StartsWith(type, IntPrefix)
    THEN (IF IsDigitText(arg) THEN "none" ELSE "arg must be numeric.")
  ELSE IF StartsWith(type, BytesPrefix)
    THEN (IF IsHexText(arg) THEN "none" ELSE "arg must be hex.")
  ELSE "none"

\* BigInt(arg) written back in canonical digits: leading zeros carry no value.
RECURSIVE StripLeadingZeros(_)
StripLeadingZeros(s) ==
  IF Len(s) >= 2 /\ Head(s) = "0" THEN StripLeadingZeros(Tail(s)) ELSE s

ParsedArg(type, arg) ==
  IF type # AddressType /\ (StartsWith(type, UintPrefix) \/ StartsWith(type, IntPrefix))
    THEN StripLeadingZeros(arg) ELSE arg

RECURSIVE FirstArgError(_, _)
FirstArgError(types, args) ==
  IF types = <<>> THEN "none"
  ELSE IF ArgError(Head(types), Head(args)) # "none" THEN ArgError(Head(types), Head(args))
  ELSE FirstArgError(Tail(types), Tail(args))

NoCall == [type |-> "none", target |-> <<>>, value |-> None, data |-> [fn |-> <<>>, body |-> <<>>]]

\* encodeFunctionData(abi, functionName, args): the canonical ABI encoding,
\* kept as the triple it is a function of.
EncodeFunctionData(fnName, types, parsedArgs) ==
  [fn |-> fnName, body |-> <<types, parsedArgs>>]

\* encodeCall(contract, selector, args, value): the call descriptor, or the
\* error it throws.
encodeCall(contract, selector, args, value) ==
  LET m     == ParseSelector(selector)
      types == ParamTypes(m.params)
  IN  IF ~m.matched
        THEN [error |-> "call selector must look like transfer(type1,type2,...)", call |-> NoCall]
      ELSE IF Len(types) # Len(args)
        THEN [error |-> "number of call args must match function selector inputs.", call |-> NoCall]
      ELSE IF FirstArgError(types, args) # "none"
        THEN [error |-> FirstArgError(types, args), call |-> NoCall]
      ELSE [error |-> "none",
            call |-> [type |-> "call", target |-> contract, value |-> value,
                      data |-> EncodeFunctionData(m.fnName, types,
                                 [i \in 1..Len(args) |-> ParsedArg(types[i], args[i])])]]

\* ------------------------------------------------------ BuilderHookComposer
\* BRIDGE_CAMPAIGN_ADDRESS, FLYWHEEL_ADDRESS, MULTICALL_ADDRESS: three distinct
\* fixed 20-byte addresses, told apart here by their first hex digits.
BRIDGE_CAMPAIGN_ADDRESS == <<"0", "x", "b", "6", "1", "A">> \o Repeat("0", 36)

FLYWHEEL_ADDRESS == <<"0", "x", "0", "0", "0", "0", "0", "f">> \o Repeat("0", 34)

MULTICALL_ADDRESS == <<"0", "x", "c", "A", "1", "1">> \o Repeat("0", 36)

MinFeeBps == 0
MaxFeeBps == 255

\* buildBuilderHookData + buildBuilderCall: send(campaign, token, hookData) on
\* the flywheel contract, hookData encoding (destination, builderCode, feeBps).
buildBuilderCall(destination, builderCode, feeBps, tokenAddress) ==
  [type |-> "call", target |-> FLYWHEEL_ADDRESS, value |-> Some(<<"0">>),
   data |-> [fn |-> <<"s", "e", "n", "d">>,
             body |-> <<BRIDGE_CAMPAIGN_ADDRESS, tokenAddress,
                        <<destination, builderCode, feeBps>> >>]]

\* A multicall that runs the user call before the builder call.
buildMulticallUserFirst(builder, userCall) ==
  [type |-> "delegatecall", target |-> MULTICALL_ADDRESS, value |-> Some(<<"0">>),
   data |-> [fn |-> <<"m", "u", "l", "t", "i", "c", "a", "l", "l">>,
             body |-> << [target |-> userCall.target, callData |-> userCall.data],
                         [target |-> builder.target, callData |-> builder.data] >>]]

\* buildMulticall(builder, userCall): one delegatecall to the multicall contract
\* running the builder call, then the user call.
buildMulticall(builder, userCall) ==
  [type |-> "delegatecall", target |-> MULTICALL_ADDRESS, value |-> Some(<<"0">>),
   data |-> [fn |-> <<"m", "u", "l", "t", "i", "c", "a", "l", "l">>,
             body |-> << [target |-> builder.target, callData |-> builder.data],
                         [target |-> userCall.target, callData |-> userCall.data] >>]]

\* --------------------------------------------------------- bridge() pipeline
\* One run of SolanaBridge.bridge(options), suspended at its awaits.
\*   pc: "none"            no call
\*       "resolveAddress"  awaiting addressResolver.resolveAddress
\*       "getAccountInfo"  awaiting connection.getAccountInfo(mint)
\*       "getMint"         awaiting getMint(connection, mint)
\*       "getBalance"      awaiting connection.getBalance       (ensureSolBalance)
\*       "getAccount"      awaiting getAccount(tokenAccount)    (ensureSplBalance)
\*       "build"           awaiting createBridgeTransaction
\*       "sign" "broadcast" "confirm"   inside submitBridgeTransaction
\*       "fulfilled" | "rejected"       the promise settled
\*   available: the lamports getBalance answered, once it has
\*   account, held: whether getAccount found the token account, and the
\*       balance it held
\*   passed: the stages completed so far (asset, amount, balance)
\*   reads/signs/sends: chain reads issued, signer invocations, broadcasts
\*   envs: the environments whose preset, connection or configuration were used
NoOptions ==
  [walletAddress |-> "none", amount |-> <<>>, assetSymbol |-> <<>>,
   destinationAddress |-> <<>>, overrides |-> None, callOptions |-> None]

NoTransaction ==
  [amount |-> 0, destinationAddress |-> <<>>, remoteAddress |-> <<>>,
   assetType |-> "none", tokenAccount |-> "none", call |-> None,
   createsAccount |-> FALSE]

NoBridgeCall ==
  [pc |-> "none", options |-> NoOptions, trimmedAmount |-> <<>>,
   resolvedAddress |-> <<>>, asset |-> NoAsset, units |-> 0,
   available |-> None, account |-> "unread", held |-> None,
   tokenAccount |-> "none", transaction |-> NoTransaction,
   error |-> "none", signature |-> "none",
   passed |-> {}, reads |-> 0, signs |-> 0, sends |-> 0, envs |-> {}]

Throw(c, message) == [c EXCEPT !.pc = "rejected", !.error = message]

\* bridge(), lines 163-181: the blank test, then the call of the address resolver.
BridgeEntry(options) ==
  LET c == [NoBridgeCall EXCEPT !.options = options, !.trimmedAmount = Trim(options.amount)]
  IN  IF c.trimmedAmount = <<>> THEN Throw(c, "Amount is required.")
      ELSE [c EXCEPT !.pc = "resolveAddress"]

\* A bridge() that goes from the parsed amount straight to the transaction
\* builder, without the balance guard.
SkipBalanceGuard(c, env) == [c EXCEPT !.pc = "build", !.envs = @ \cup {env}]

\* ensureSolBalance / ensureSplBalance are entered: the balance read is issued
\* on the connection of the environment current at that moment.
EnterBalanceGuard(c, env) ==
  [c EXCEPT !.pc = IF c.asset.type = "sol" THEN "getBalance" ELSE "getAccount",
            !.reads = @ + 1, !.envs = @ \cup {env}]

\* A bridge() that issues the balance read before it parses the amount.
AfterAssetReadFirst(c, asset, env) ==
  LET parsed == parseAmountToUnits(c.trimmedAmount, Get(asset.decimals))
      d      == [c EXCEPT !.asset = asset, !.passed = @ \cup {"asset"}]
  IN  IF ~parsed.ok THEN Throw([d EXCEPT !.reads = @ + 1, !.envs = @ \cup {env}], parsed.error)
      ELSE EnterBalanceGuard([d EXCEPT !.units = parsed.units,
                                       !.passed = @ \cup {"amount"}], env)

\* bridge(), line 185 on: the asset is resolved; parse the amount at its
\* decimals, then enter the balance guard.
AfterAsset(c, asset, env) ==
  LET parsed == parseAmountToUnits(c.trimmedAmount, Get(asset.decimals))
      d      == [c EXCEPT !.asset = asset, !.passed = @ \cup {"asset"}]
  IN  IF ~parsed.ok THEN Throw(d, parsed.error)
      ELSE EnterBalanceGuard([d EXCEPT !.units = parsed.units,
                                       !.passed = @ \cup {"amount"}], env)

\* The end of resolveAssetDefinition and what bridge() does with its result.
FinishResolve(c, asset, env) ==
  LET r == ResolveFinish(asset)
  IN  IF r.error # "none" THEN Throw([c EXCEPT !.asset = asset], r.error)
      ELSE AfterAsset(c, r.asset, env)

\* addressResolver.resolveAddress of a literal 0x address is that address.
ResolveAddress(destination) == destination

\* bridge(), lines 181-184: the destination is resolved; resolveAssetDefinition
\* runs up to its first chain read against the preset of the environment
\* current at that moment.
AfterResolveAddress(c, assets, env) ==
  LET prep == ResolvePrepare(c.options.assetSymbol, c.options.overrides, assets)
      d    == [c EXCEPT !.resolvedAddress = ResolveAddress(c.options.destinationAddress),
                        !.envs = @ \cup {env}]
  IN  IF prep.error # "none" THEN Throw(d, prep.error)
      ELSE IF prep.asset.type = "spl"
        THEN [d EXCEPT !.pc = "getAccountInfo", !.asset = prep.asset, !.reads = @ + 1]
      ELSE FinishResolve(d, prep.asset, env)

\* resolveAssetDefinition, lines 254-266: getAccountInfo answered (accountInfo is
\* the owner of the mint account, or absent); getMint is called only when the
\* decimals are still unknown.
AfterAccountInfo(c, accountInfo, env) ==
  LET asset == WithAccountInfo(c.asset, accountInfo)
  IN  IF ~Has(asset.decimals)
        THEN [c EXCEPT !.pc = "getMint", !.asset = asset, !.reads = @ + 1,
                       !.envs = @ \cup {env}]
        ELSE FinishResolve(c, asset, env)

\* A balance guard that also refuses a balance equal to the amount.
AfterGetBalanceStrict(c, lamports) ==
  IF lamports <= c.units
    THEN Throw([c EXCEPT !.available = Some(lamports)], "Insufficient SOL balance.")
  ELSE [c EXCEPT !.pc = "build", !.passed = @ \cup {"balance"}, !.available = Some(lamports)]

\* ensureSolBalance: the balance must cover the amount.
AfterGetBalance(c, lamports) ==
  IF lamports < c.units
    THEN Throw([c EXCEPT !.available = Some(lamports)], "Insufficient SOL balance.")
  ELSE [c EXCEPT !.pc = "build", !.passed = @ \cup {"balance"}, !.available = Some(lamports)]

\* What ensureSplBalance returns: the associated token address, both from
\* the catch of getAccount and after an account was read.
SplBalanceCheckResult(account) ==
  IF Has(account) THEN [tokenAccount |-> "associated"]
  ELSE [tokenAccount |-> "associated"]

\* ensureSplBalance: a missing token account and a low balance both pass.
\* account records what getAccount answered.
AfterGetAccount(c, account) ==
  [c EXCEPT !.pc = "build", !.passed = @ \cup {"balance"},
            !.account = IF Has(account) THEN "found" ELSE "missing",
            !.held = account,
            !.tokenAccount = SplBalanceCheckResult(account).tokenAccount]

\* The arguments bridge() hands to createBridgeTransaction.
TransactionOf(c) ==
  [amount |-> c.units, destinationAddress |-> c.resolvedAddress,
   remoteAddress |-> c.asset.remoteAddress, assetType |-> c.asset.type,
   tokenAccount |-> c.tokenAccount, call |-> c.options.callOptions,
   createsAccount |-> FALSE]

\* The builder: the transaction carries what it was handed, and the
\* instruction creating the token account when it is told the account must
\* be created.
CreateBridgeTransaction(args, tokenAccountState) ==
  [args EXCEPT !.createsAccount =
     args.assetType = "spl" /\ tokenAccountState = Some("MustBeCreated")]

\* ------------------------------------------------------------- queueBridge
NoFlags ==
  [mint |-> None, remote |-> None, decimals |-> None,
   callContract |-> None, callSelector |-> None, callArgs |-> None, callValue |-> None,
   withBc |-> None, bcFee |-> None]

NoPayload == [amount |-> <<>>, asset |-> <<>>, destination |-> <<>>, flags |-> NoFlags]

NoStage == [payload |-> NoPayload, overrides |-> None, call |-> None]

SendSelector == <<"s", "e", "n", "d", "(", ")">>

HookDataPlaceholder == <<"<hookData>">>

\* overrides / normalizedOverrides of queueBridge: mint and remote are copied
\* when truthy, decimals when it is a number; no key at all gives undefined.
StageOverrides(flags) ==
  LET mint     == IF TruthyText(flags.mint) THEN flags.mint ELSE None
      remote   == IF TruthyText(flags.remote) THEN flags.remote ELSE None
      decimals == flags.decimals
  IN  IF Has(mint) \/ Has(remote) \/ Has(decimals)
        THEN Overrides(mint, remote, decimals) ELSE None

\* A JavaScript number given by its floor and its tenths above the floor.
Whole(n) == [int |-> n, tenths |-> 0]

\* Number.isInteger
IsInteger(x) == x.tenths = 0

\* feeBps of queueBridge and its range test.
FeeBps(flags) == IF Has(flags.bcFee) THEN Get(flags.bcFee) ELSE Whole(0)

\* A fee test over the whole basis-point scale.
FeeInBasisPoints(feeBps) == IsInteger(feeBps) /\ feeBps.int >= 0 /\ feeBps.int <= 10000

FeeInRange(feeBps) ==
  IsInteger(feeBps) /\ feeBps.int >= MinFeeBps /\ feeBps.int <= MaxFeeBps

\* queueBridge from line 638 on, given the outcome of its encodeCall (used only
\* when the line carries a call):
\*   staged   whether a stage is returned (and pendingCall, pendingBridge,
\*            bridgeOverrides are set from it)
\*   metaSet  whether setPendingCallMeta was called, and meta its last argument
\*   log      the last log entry it appends
QueueWithCall(payload, wrappedSOL, encoded) ==
  LET flags     == payload.flags
      wantsCall == TruthyText(flags.callContract) /\ TruthyText(flags.callSelector)
      userCall  == IF wantsCall THEN Some(encoded.call) ELSE None
      userMeta  == IF wantsCall
                     THEN Some([contract |-> Get(flags.callContract),
                                selector |-> Get(flags.callSelector),
                                args |-> IF Has(flags.callArgs) THEN Get(flags.callArgs) ELSE <<>>,
                                value |-> flags.callValue])
                     ELSE None
      wantsBc   == TruthyText(flags.withBc)
      feeBps    == FeeBps(flags)
      remoteToken == IF Has(flags.remote) THEN Get(flags.remote) ELSE wrappedSOL
      builderCall == buildBuilderCall(payload.destination, Get(flags.withBc), feeBps, remoteToken)
      callOption  == IF ~wantsBc THEN userCall
                     ELSE IF Has(userCall) THEN Some(buildMulticall(builderCall, Get(userCall)))
                     ELSE Some(builderCall)
      builderMeta == Some([contract |-> FLYWHEEL_ADDRESS, selector |-> SendSelector,
                           args |-> <<BRIDGE_CAMPAIGN_ADDRESS, remoteToken, HookDataPlaceholder>>,
                           value |-> Some(<<"0">>)])
  IN  IF wantsCall /\ encoded.error # "none"
        THEN [staged |-> FALSE, stage |-> NoStage, metaSet |-> FALSE, meta |-> None,
              log |-> encoded.error]
      ELSE IF wantsBc /\ ~FeeInRange(feeBps)
        THEN [staged |-> FALSE, stage |-> NoStage, metaSet |-> TRUE, meta |-> userMeta,
              log |-> "bc-fee must be an integer between 0 and 255 (uint8)."]
      ELSE [staged |-> TRUE,
            stage |-> [payload |-> payload, overrides |-> StageOverrides(flags),
                       call |-> callOption],
            metaSet |-> TRUE,
            meta |-> IF wantsBc THEN builderMeta ELSE userMeta,
            log |-> IF Has(callOption) THEN "attached call" ELSE "bridge staged"]

\* queueBridge(payload) as a function of the payload and of config.base.wrappedSOL.
QueueBridge(payload, wrappedSOL) ==
  QueueWithCall(payload, wrappedSOL,
                encodeCall(Get(payload.flags.callContract), Get(payload.flags.callSelector),
                           IF Has(payload.flags.callArgs) THEN Get(payload.flags.callArgs)
                           ELSE <<>>,
                           payload.flags.callValue))

\* ------------------------------------------------------ executeQueuedBridge
\* The options executeQueuedBridge(stage) passes to solanaBridge.bridge: each
\* part comes from the stage when the stage has it (??), else from the
\* pendingBridge / bridgeOverrides / pendingCall its closure captured.
ExecutionOptions(stage, snap) ==
  LET bridgePayload == IF Has(stage) THEN Get(stage).payload ELSE Get(snap.pendingBridge)
      overrides     == IF Has(stage) THEN Coalesce(Get(stage).overrides, snap.bridgeOverrides)
                       ELSE snap.bridgeOverrides
      callOption    == IF Has(stage) THEN Coalesce(Get(stage).call, snap.pendingCall)
                       ELSE snap.pendingCall
  IN  [walletAddress |-> Get(snap.publicKey),
       amount |-> bridgePayload.amount,
       assetSymbol |-> bridgePayload.asset,
       destinationAddress |-> IF Has(bridgePayload.flags.withBc)
                                THEN BRIDGE_CAMPAIGN_ADDRESS ELSE bridgePayload.destination,
       overrides |-> overrides,
       callOptions |-> callOption]

\* A catch clause that clears the staging on every failure.
EveryFailureClears(message) == TRUE

\* message.includes("User rejected the request")
IsUserRejection(message) == message = "User rejected the request."

\* An Execute button that is disabled only while the terminal is locked.
ButtonDisabledWhileLocked(locked, executing) == locked

\* The Execute button: disabled={isLocked || isExecuting}.
ButtonDisabled(locked, executing) == locked \/ executing

\* ------------------------------------------------------------------- state
VARIABLES
  \* React state of MainContent
  pendingBridge,    \* staged BridgeCommandPayload, or absent
  bridgeOverrides,  \* staged asset overrides, or absent
  pendingCall,      \* staged call descriptor, or absent
  pendingCallMeta,  \* what the "staged call" line displays, or absent
  isLocked,         \* set by runWithLock
  isExecuting,      \* set by executeQueuedBridge
  publicKey,        \* the connected wallet, or absent
  lastLog,          \* the newest log entry (its kind)
  lastClick,        \* what became of the last click on Execute
  \* invocations of handleCommandBatchExecute, each with the closure it captured
  handlers,
  \* SolanaBridge
  environmentKey,   \* the environment the bridge singleton is set to
  assetsOf,         \* environment -> preset asset table
  calls,            \* the bridge() call of each handler
  \* AmountCodec on its own
  codecMode,      \* "parse": text -> units -> text;  "format": units -> text -> units
  codecText,      \* the amount text given to the codec
  codecDecimals,  \* the decimals it is converted at
  codecUnits,     \* the base units given to formatUnits
  codecPc,        \* "start" | "parsed" | "formatted" | "done"
  codecParsed,    \* result of BridgeAmount
  codecFormatted, \* result of formatUnits
  \* encodeCall on its own
  encSelector,    \* the selector text given to encodeCall
  encArgs,        \* the argument texts given to it
  encPc,          \* "idle" | "ready" | "done"
  encResult,      \* what encodeCall returned or threw
  \* the twin address effect of MainContent
  twinAddress,    \* the displayed twin address, or absent
  twinLookups     \* the getPredictedTwinAddress reads in flight

stageVars == <<pendingBridge, bridgeOverrides, pendingCall, pendingCallMeta>>

uiVars == <<stageVars, isLocked, isExecuting, publicKey, lastLog, lastClick, handlers>>

bridgeVars == <<environmentKey, assetsOf, calls>>

codecVars ==
  <<codecMode, codecText, codecDecimals, codecUnits, codecPc, codecParsed, codecFormatted>>

encVars == <<encSelector, encArgs, encPc, encResult>>

twinVars == <<twinAddress, twinLookups>>

pureVars == <<codecVars, encVars, twinVars>>

vars == <<uiVars, bridgeVars, pureVars>>

\* ------------------------------------------------------------ sample values
MaxHandlers == 2

Handlers == 1..MaxHandlers

Environments == {"devnet", "mainnet"}

DefaultEnvironment == "devnet"

\* 20-byte addresses: a destination, a remote token written in mixed case, a
\* call target, and config.base.wrappedSOL of each environment.
DestinationA == <<"0", "x">> \o Repeat("a", 40)

RemoteMixedCase == <<"0", "x", "B", "c">> \o Repeat("1", 38)

RemoteTooShort == <<"0", "x">> \o Repeat("1", 39)

\* A remote token written with an upper-case prefix and upper-case digits.
RemoteUpperPrefix == <<"0", "X">> \o Repeat("A", 40)

CallTarget == <<"0", "x">> \o Repeat("c", 40)

WrappedSol(env) ==
  IF env = "devnet" THEN <<"0", "x", "d", "e">> \o Repeat("5", 38)
  ELSE <<"0", "x", "f", "e">> \o Repeat("5", 38)

\* Mint texts: 32 ones decode to 32 zero bytes (a public key), and so do 31
\* ones followed by a two; 32 "A" match the mint pattern but decode to 24
\* bytes only.
MintKey == Repeat("1", 32)

MintKeyB == Repeat("1", 31) \o <<"2">>

MintNotAKey == Repeat("A", 32)

SolUpper == <<"S", "o", "l">>

UsdcSymbol == <<"u", "s", "d", "c">>

Preset(symbol, type, decimals, mintAddress, remoteAddress) ==
  [symbol |-> symbol, label |-> Some(ToUpperCase(symbol)), type |-> type,
   decimals |-> decimals, mintAddress |-> mintAddress, remoteAddress |-> remoteAddress]

\* The preset table of an environment: SOL, bridged to that environment's
\* wrapped SOL on Base.
PresetTable(env) ==
  << Preset(NativeSymbol, "sol", Some(NativeDecimals), None, Some(WrappedSol(env))) >>

OneSol == 1000000000

LamportChoices == {0, 1, OneSol}

MintDecimalChoices == {0, 2}

TokenPrograms == {TokenProgramId, "TOKEN_2022_PROGRAM_ID"}

HandlerIdle ==
  [pc |-> "idle", linesLeft |-> 0, latestStage |-> None, hasBridgeCommand |-> FALSE,
   snap |-> [pendingBridge |-> None, bridgeOverrides |-> None, pendingCall |-> None,
             publicKey |-> None, environment |-> DefaultEnvironment]]

UiIdle ==
  /\ pendingBridge = None
  /\ bridgeOverrides = None
  /\ pendingCall = None
  /\ pendingCallMeta = None
  /\ isLocked = FALSE
  /\ isExecuting = FALSE
  /\ publicKey = None
  /\ lastLog = "none"
  /\ lastClick = "none"
  /\ handlers = [h \in Handlers |-> HandlerIdle]
  /\ twinAddress = None
  /\ twinLookups = {}

BridgeIdle ==
  /\ environmentKey = DefaultEnvironment
  /\ assetsOf = [e \in Environments |-> PresetTable(e)]
  /\ calls = [h \in Handlers |-> NoBridgeCall]

CodecIdle ==
  /\ codecMode = "idle"
  /\ codecText = <<>>
  /\ codecDecimals = 0
  /\ codecUnits = 0
  /\ codecPc = "idle"
  /\ codecParsed = [ok |-> FALSE, units |-> 0, error |-> "none"]
  /\ codecFormatted = <<>>

NoEncoded == [error |-> "none", call |-> NoCall]

EncodeIdle ==
  /\ encSelector = <<>>
  /\ encArgs = <<>>
  /\ encPc = "idle"
  /\ encResult = NoEncoded

\* JavaScript runs to completion: while a handler is running, or a settled
\* bridge() promise has a continuation to run, no event is dispatched.
Settled(c) == c.pc \in {"fulfilled", "rejected"}

JsBusy ==
  \E h \in Handlers :
    \/ handlers[h].pc = "loop"
    \/ (handlers[h].pc = "awaitBridge" /\ Settled(calls[h]))

\* ------------------------------------------------- bridge() pipeline actions
\* Each action is the answer to the await the call is suspended at.
ResolveAddressDone(h) ==
  /\ ~JsBusy /\ calls[h].pc = "resolveAddress"
  /\ calls' = [calls EXCEPT ![h] =
                 AfterResolveAddress(@, assetsOf[environmentKey], environmentKey)]
  /\ UNCHANGED <<uiVars, environmentKey, assetsOf, pureVars>>

GetAccountInfoDone(h) ==
  /\ ~JsBusy /\ calls[h].pc = "getAccountInfo"
  /\ \/ \E info \in {None} \cup {Some(p) : p \in TokenPrograms} :
          calls' = [calls EXCEPT ![h] = AfterAccountInfo(@, info, environmentKey)]
     \/ calls' = [calls EXCEPT ![h] = Throw(@, "RPC request failed.")]
  /\ UNCHANGED <<uiVars, environmentKey, assetsOf, pureVars>>

GetMintDone(h) ==
  /\ ~JsBusy /\ calls[h].pc = "getMint"
  /\ \E mintInfo \in {None} \cup {Some(d) : d \in MintDecimalChoices} :
       calls' = [calls EXCEPT ![h] =
                   FinishResolve(@, WithMintInfo(calls[h].asset, mintInfo), environmentKey)]
  /\ UNCHANGED <<uiVars, environmentKey, assetsOf, pureVars>>

GetBalanceDone(h) ==
  /\ ~JsBusy /\ calls[h].pc = "getBalance"
  /\ \/ \E lamports \in LamportChoices :
          calls' = [calls EXCEPT ![h] = AfterGetBalance(@, lamports)]
     \/ calls' = [calls EXCEPT ![h] = Throw(@, "RPC request failed.")]
  /\ UNCHANGED <<uiVars, environmentKey, assetsOf, pureVars>>

GetAccountDone(h) ==
  /\ ~JsBusy /\ calls[h].pc = "getAccount"
  /\ \E account \in {None} \cup {Some(b) : b \in LamportChoices} :
       calls' = [calls EXCEPT ![h] = AfterGetAccount(@, account)]
  /\ UNCHANGED <<uiVars, environmentKey, assetsOf, pureVars>>

\* createBridgeTransaction answered: the transaction, handed on to
\* submitBridgeTransaction, which invokes the signer; or a build failure.
BuildDone(h) ==
  /\ ~JsBusy /\ calls[h].pc = "build"
  /\ \/ calls' = [calls EXCEPT ![h] =
                    [@ EXCEPT !.pc = "sign", !.transaction =
                                CreateBridgeTransaction(TransactionOf(calls[h]), None),
                              !.signs = @ + 1, !.envs = @ \cup {environmentKey}]]
     \/ calls' = [calls EXCEPT ![h] = Throw(@, "Failed to build bridge transaction.")]
  /\ UNCHANGED <<uiVars, environmentKey, assetsOf, pureVars>>

\* The signer answered: the signed transaction is broadcast, or the user
\* declined.
SignDone(h) ==
  /\ ~JsBusy /\ calls[h].pc = "sign"
  /\ \/ calls' = [calls EXCEPT ![h] = [@ EXCEPT !.pc = "broadcast", !.sends = @ + 1]]
     \/ calls' = [calls EXCEPT ![h] = Throw(@, "User rejected the request.")]
  /\ UNCHANGED <<uiVars, environmentKey, assetsOf, pureVars>>

BroadcastDone(h) ==
  /\ ~JsBusy /\ calls[h].pc = "broadcast"
  /\ \/ calls' = [calls EXCEPT ![h] = [@ EXCEPT !.pc = "confirm"]]
     \/ calls' = [calls EXCEPT ![h] = Throw(@, "Transaction broadcast failed.")]
  /\ UNCHANGED <<uiVars, environmentKey, assetsOf, pureVars>>

ConfirmDone(h) ==
  /\ ~JsBusy /\ calls[h].pc = "confirm"
  /\ \/ calls' = [calls EXCEPT ![h] = [@ EXCEPT !.pc = "fulfilled", !.signature = "signature"]]
     \/ calls' = [calls EXCEPT ![h] = Throw(@, "Transaction confirmation timed out.")]
  /\ UNCHANGED <<uiVars, environmentKey, assetsOf, pureVars>>

BridgeStep(h) ==
  \/ ResolveAddressDone(h)
  \/ GetAccountInfoDone(h)
  \/ GetMintDone(h)
  \/ GetBalanceDone(h)
  \/ GetAccountDone(h)
  \/ BuildDone(h)
  \/ SignDone(h)
  \/ BroadcastDone(h)
  \/ ConfirmDone(h)

\* ------------------------------------------------------- terminal sessions
MaxBatch == 2

WalletA == "walletA"

GoodSelector == <<"f", "(", "u", "i", "n", "t", "8", ")">>

\* The flags of the sampled bridge lines: which asset overrides, which call and
\* which builder code they carry.
OverrideFlags(kind) ==
  IF kind = "full"
    THEN [NoFlags EXCEPT !.mint = Some(MintKey), !.remote = Some(RemoteMixedCase),
                         !.decimals = Some(2)]
  ELSE IF kind = "remote" THEN [NoFlags EXCEPT !.remote = Some(RemoteMixedCase)]
  ELSE NoFlags

CallFlags(flags, kind) ==
  IF kind = "call"
    THEN [flags EXCEPT !.callContract = Some(CallTarget), !.callSelector = Some(GoodSelector),
                       !.callArgs = Some(<< <<"5">> >>)]
  ELSE IF kind = "badCall"
    THEN [flags EXCEPT !.callContract = Some(CallTarget), !.callSelector = Some(GoodSelector),
                       !.callArgs = Some(<<>>)]
  ELSE IF kind = "shortTarget"
    THEN [flags EXCEPT !.callContract = Some(RemoteTooShort), !.callSelector = Some(GoodSelector),
                       !.callArgs = Some(<< <<"5">> >>)]
  ELSE IF kind = "namedTarget"
    THEN [flags EXCEPT !.callContract = Some(<<"v", "a", "u", "l", "t">>),
                       !.callSelector = Some(GoodSelector), !.callArgs = Some(<< <<"5">> >>)]
  ELSE flags

BuilderFlags(flags, kind) ==
  IF kind = "bc" THEN [flags EXCEPT !.withBc = Some(<<"b", "c">>), !.bcFee = Some(Whole(5))]
  ELSE IF kind = "badFee" THEN [flags EXCEPT !.withBc = Some(<<"b", "c">>), !.bcFee = Some(Whole(300))]
  ELSE flags

BridgePayload(amount, asset, ov, call, bc) ==
  [amount |-> amount, asset |-> asset, destination |-> DestinationA,
   flags |-> BuilderFlags(CallFlags(OverrideFlags(ov), call), bc)]

\* The bridge lines a batch is made of: plain native transfers, token transfers
\* with and without overrides, with a call, a builder code, both, and lines
\* with a bad amount, a bad call or a bad builder fee.
PayloadSamples ==
  { BridgePayload(<<"1">>, NativeSymbol, "none", "none", "none"),
    BridgePayload(<<"0">>, NativeSymbol, "none", "none", "none"),
    BridgePayload(<<"1">>, UsdcSymbol, "none", "none", "none"),
    BridgePayload(<<"1">>, UsdcSymbol, "full", "call", "none"),
    BridgePayload(<<"1">>, UsdcSymbol, "full", "call", "bc"),
    BridgePayload(<<"1">>, MintKey, "remote", "none", "none"),
    BridgePayload(<<"0">>, MintKey, "remote", "none", "none"),
    BridgePayload(<<"1">>, NativeSymbol, "none", "badCall", "none"),
    BridgePayload(<<"1">>, NativeSymbol, "none", "none", "bc"),
    BridgePayload(<<"1">>, NativeSymbol, "none", "call", "badFee"),
    BridgePayload(<<"1">>, NativeSymbol, "none", "none", "badFee") }

\* The bridge lines queueBridge is given on its own: every kind of asset
\* override and of call, with or without a builder code, over a range of
\* fees. A call to a target that is not an address is not combined with a
\* builder code.
FeeSamples ==
  { None, Some(Whole(0)), Some(Whole(5)), Some(Whole(255)), Some(Whole(256)),
    Some(Whole(-1)), Some([int |-> 1, tenths |-> 5]) }

StageSamples ==
  { payload \in
      { [amount |-> <<"1">>, asset |-> NativeSymbol, destination |-> DestinationA,
         flags |-> [CallFlags(OverrideFlags(ov), call) EXCEPT !.withBc = bc, !.bcFee = fee]] :
          ov \in {"none", "full", "remote"},
          call \in {"none", "call", "badCall", "shortTarget", "namedTarget"},
          bc \in {None, Some(<<"b", "c">>)},
          fee \in FeeSamples } :
      \/ ~Has(payload.flags.withBc)
      \/ ~Has(payload.flags.callContract)
      \/ IsEvmAddress(Get(payload.flags.callContract)) }

\* queueBridge(parsed.payload) of each sampled line, under the configuration of
\* each environment.
Queued ==
  [payload \in PayloadSamples \cup StageSamples, env \in Environments |->
     QueueBridge(payload, WrappedSol(env))]

IdleHandler(h) == handlers[h].pc = "idle" /\ \A g \in 1..(h - 1) : handlers[g].pc # "idle"

\* A click on the Execute button while it is disabled: no handler is invoked.
ClickDisabled ==
  /\ ~JsBusy
  /\ ButtonDisabled(isLocked, isExecuting)
  /\ lastClick' = "discarded"
  /\ UNCHANGED <<stageVars, isLocked, isExecuting, publicKey, lastLog, handlers,
                 bridgeVars, pureVars>>

\* A click on the enabled Execute button invokes handleCommandBatchExecute with
\* the state of the current render; lines is the number of command lines of the
\* batch.
ClickExecute(h, lines) ==
  /\ ~JsBusy
  /\ ~ButtonDisabled(isLocked, isExecuting)
  /\ IdleHandler(h)
  /\ lastClick' = "dispatched"
  /\ IF isLocked
       THEN /\ lastLog' = "another command is still running"
            /\ UNCHANGED handlers
     ELSE IF lines = 0
       THEN /\ lastLog' = "type one or more commands before executing."
            /\ UNCHANGED handlers
     ELSE /\ handlers' = [handlers EXCEPT ![h] =
                            [pc |-> "loop", linesLeft |-> lines, latestStage |-> None,
                             hasBridgeCommand |-> FALSE,
                             snap |-> [pendingBridge |-> pendingBridge,
                                       bridgeOverrides |-> bridgeOverrides,
                                       pendingCall |-> pendingCall,
                                       publicKey |-> publicKey,
                                       environment |-> environmentKey]]]
          /\ UNCHANGED lastLog
  /\ UNCHANGED <<stageVars, isLocked, isExecuting, publicKey, bridgeVars, pureVars>>

\* A loop body that keeps the first stage of the batch as latestStage.
BridgeLineKeepsFirstStage(h, payload) ==
  /\ handlers[h].pc = "loop" /\ handlers[h].linesLeft > 0
  /\ \E q \in {Queued[payload, handlers[h].snap.environment]} :
       /\ pendingCallMeta' = IF q.metaSet THEN q.meta ELSE pendingCallMeta
       /\ pendingCall' = IF q.staged THEN q.stage.call ELSE pendingCall
       /\ pendingBridge' = IF q.staged THEN Some(q.stage.payload) ELSE pendingBridge
       /\ bridgeOverrides' = IF q.staged THEN q.stage.overrides ELSE bridgeOverrides
       /\ lastLog' = q.log
       /\ handlers' = [handlers EXCEPT ![h] =
                         [@ EXCEPT !.linesLeft = @ - 1,
                                   !.latestStage = IF q.staged /\ ~Has(@) THEN Some(q.stage)
                                                   ELSE @,
                                   !.hasBridgeCommand = IF q.staged THEN TRUE ELSE @]]
  /\ UNCHANGED <<isLocked, isExecuting, publicKey, lastClick, bridgeVars, pureVars>>

\* The loop body for a bridge line: queueBridge(parsed.payload).
BridgeLine(h, payload) ==
  /\ handlers[h].pc = "loop" /\ handlers[h].linesLeft > 0
  /\ \E q \in {Queued[payload, handlers[h].snap.environment]} :
       /\ pendingCallMeta' = IF q.metaSet THEN q.meta ELSE pendingCallMeta
       /\ pendingCall' = IF q.staged THEN q.stage.call ELSE pendingCall
       /\ pendingBridge' = IF q.staged THEN Some(q.stage.payload) ELSE pendingBridge
       /\ bridgeOverrides' = IF q.staged THEN q.stage.overrides ELSE bridgeOverrides
       /\ lastLog' = q.log
       /\ handlers' = [handlers EXCEPT ![h] =
                         [@ EXCEPT !.linesLeft = @ - 1,
                                   !.latestStage = IF q.staged THEN Some(q.stage) ELSE @,
                                   !.hasBridgeCommand = IF q.staged THEN TRUE ELSE @]]
  /\ UNCHANGED <<isLocked, isExecuting, publicKey, lastClick, bridgeVars, pureVars>>

\* The loop body for "help": executeCommand prints the guide.
HelpLine(h) ==
  /\ handlers[h].pc = "loop" /\ handlers[h].linesLeft > 0
  /\ lastLog' = "help"
  /\ handlers' = [handlers EXCEPT ![h] = [@ EXCEPT !.linesLeft = @ - 1]]
  /\ UNCHANGED <<stageVars, isLocked, isExecuting, publicKey, lastClick, bridgeVars, pureVars>>

\* The loop body for "balance": without a wallet an error line; with one,
\* runWithLock(printBalances), which suspends the handler on its reads.
BalanceLine(h) ==
  /\ handlers[h].pc = "loop" /\ handlers[h].linesLeft > 0
  /\ IF ~Has(handlers[h].snap.publicKey)
       THEN /\ lastLog' = "connect a Solana wallet first."
            /\ handlers' = [handlers EXCEPT ![h] = [@ EXCEPT !.linesLeft = @ - 1]]
            /\ UNCHANGED isLocked
       ELSE /\ isLocked' = TRUE
            /\ handlers' = [handlers EXCEPT ![h] =
                              [@ EXCEPT !.pc = "awaitCommand", !.linesLeft = @ - 1]]
            /\ UNCHANGED lastLog
  /\ UNCHANGED <<stageVars, isExecuting, publicKey, lastClick, bridgeVars, pureVars>>

\* printBalances finished: runWithLock releases the lock and the loop goes on.
CommandSettled(h) ==
  /\ ~JsBusy
  /\ handlers[h].pc = "awaitCommand"
  /\ isLocked' = FALSE
  /\ lastLog' = "balances"
  /\ handlers' = [handlers EXCEPT ![h] = [@ EXCEPT !.pc = "loop"]]
  /\ UNCHANGED <<stageVars, isExecuting, publicKey, lastClick, bridgeVars, pureVars>>

\* The loop body for "deploySpl": runWithLock(handleDeploySpl), which takes the
\* lock and suspends the handler.
DeployLine(h) ==
  /\ handlers[h].pc = "loop" /\ handlers[h].linesLeft > 0
  /\ isLocked' = TRUE
  /\ handlers' = [handlers EXCEPT ![h] =
                    [@ EXCEPT !.pc = "awaitDeploy", !.linesLeft = @ - 1]]
  /\ UNCHANGED <<stageVars, isExecuting, publicKey, lastLog, lastClick, bridgeVars, pureVars>>

\* A runWithLock that releases the lock only when its action returns.
DeploySettledWithoutFinally(h) ==
  /\ ~JsBusy
  /\ handlers[h].pc = "awaitDeploy"
  /\ IF handlers[h].snap.environment # "devnet"
       THEN /\ lastLog' = "deploySpl is only available on Solana devnet."
            /\ isLocked' = FALSE
            /\ handlers' = [handlers EXCEPT ![h] = [@ EXCEPT !.pc = "loop"]]
     ELSE IF ~Has(handlers[h].snap.publicKey)
       THEN /\ lastLog' = "connect a Solana wallet first."
            /\ isLocked' = FALSE
            /\ handlers' = [handlers EXCEPT ![h] = [@ EXCEPT !.pc = "loop"]]
     ELSE \/ /\ lastLog' = "deploySpl success"
             /\ isLocked' = FALSE
             /\ handlers' = [handlers EXCEPT ![h] = [@ EXCEPT !.pc = "loop"]]
          \/ /\ handlers' = [handlers EXCEPT ![h] = HandlerIdle]
             /\ UNCHANGED <<lastLog, isLocked>>
  /\ UNCHANGED <<stageVars, isExecuting, publicKey, lastClick, bridgeVars, pureVars>>

\* handleDeploySpl settled: it returned (refused off devnet or without a
\* wallet, or deployed) and the loop goes on, or one of its chain requests or
\* the signer threw, which it does not catch: the rejection leaves
\* handleCommandBatchExecute and the rest of the batch is abandoned. The finally
\* of runWithLock releases the lock either way.
DeploySettled(h) ==
  /\ ~JsBusy
  /\ handlers[h].pc = "awaitDeploy"
  /\ isLocked' = FALSE
  /\ IF handlers[h].snap.environment # "devnet"
       THEN /\ lastLog' = "deploySpl is only available on Solana devnet."
            /\ handlers' = [handlers EXCEPT ![h] = [@ EXCEPT !.pc = "loop"]]
     ELSE IF ~Has(handlers[h].snap.publicKey)
       THEN /\ lastLog' = "connect a Solana wallet first."
            /\ handlers' = [handlers EXCEPT ![h] = [@ EXCEPT !.pc = "loop"]]
     ELSE \/ /\ lastLog' = "deploySpl success"
             /\ handlers' = [handlers EXCEPT ![h] = [@ EXCEPT !.pc = "loop"]]
          \/ /\ handlers' = [handlers EXCEPT ![h] = HandlerIdle]
             /\ UNCHANGED lastLog
  /\ UNCHANGED <<stageVars, isExecuting, publicKey, lastClick, bridgeVars, pureVars>>

\* The end of the loop: executeQueuedBridge(latestStage), executeQueuedBridge()
\* or "commands processed."; executeQueuedBridge runs up to its await of
\* solanaBridge.bridge.
BatchEnd(h) ==
  /\ handlers[h].pc = "loop" /\ handlers[h].linesLeft = 0
  /\ LET stage == handlers[h].latestStage
         snap  == handlers[h].snap
     IN  IF ~Has(stage) /\ ~handlers[h].hasBridgeCommand
           THEN /\ lastLog' = "commands processed."
                /\ handlers' = [handlers EXCEPT ![h] = HandlerIdle]
                /\ UNCHANGED <<isExecuting, calls>>
         ELSE IF ~Has(snap.publicKey)
           THEN /\ lastLog' = "Execute blocked: wallet not connected."
                /\ handlers' = [handlers EXCEPT ![h] = HandlerIdle]
                /\ UNCHANGED <<isExecuting, calls>>
         ELSE IF ~Has(stage) /\ ~Has(snap.pendingBridge)
           THEN /\ lastLog' = "Execute blocked: no bridge command queued."
                /\ handlers' = [handlers EXCEPT ![h] = HandlerIdle]
                /\ UNCHANGED <<isExecuting, calls>>
         ELSE /\ isExecuting' = TRUE
              /\ lastLog' = "executing bridge workflow..."
              /\ calls' = [calls EXCEPT ![h] = BridgeEntry(ExecutionOptions(stage, snap))]
              /\ handlers' = [handlers EXCEPT ![h] = [@ EXCEPT !.pc = "awaitBridge"]]
  /\ UNCHANGED <<stageVars, isLocked, publicKey, lastClick, environmentKey, assetsOf, pureVars>>

\* solanaBridge.bridge settled: the continuation of executeQueuedBridge (success,
\* catch, finally) and the end of handleCommandBatchExecute.
ExecuteSettled(h) ==
  /\ handlers[h].pc = "awaitBridge" /\ Settled(calls[h])
  /\ LET clears == calls[h].pc = "fulfilled" \/ IsUserRejection(calls[h].error)
     IN  /\ pendingBridge' = IF clears THEN None ELSE pendingBridge
         /\ bridgeOverrides' = IF clears THEN None ELSE bridgeOverrides
         /\ pendingCall' = IF clears THEN None ELSE pendingCall
         /\ pendingCallMeta' = IF clears THEN None ELSE pendingCallMeta
         /\ lastLog' = IF calls[h].pc = "fulfilled" THEN "Bridge submitted"
                       ELSE IF clears THEN "Bridge request was canceled; staging cleared."
                       ELSE calls[h].error
  /\ isExecuting' = FALSE
  /\ handlers' = [handlers EXCEPT ![h] = HandlerIdle]
  /\ calls' = [calls EXCEPT ![h] = NoBridgeCall]
  /\ UNCHANGED <<isLocked, publicKey, lastClick, environmentKey, assetsOf, pureVars>>

\* The wallet adapter connects or disconnects.
WalletChange ==
  /\ ~JsBusy
  /\ publicKey' = IF Has(publicKey) THEN None ELSE Some(WalletA)
  /\ UNCHANGED <<stageVars, isLocked, isExecuting, lastLog, lastClick, handlers,
                 bridgeVars, pureVars>>

\* solanaBridge.setEnvironment(env): the singleton switches its configuration
\* and connection.
SetEnvironment(env) ==
  /\ ~JsBusy
  /\ env # environmentKey
  /\ environmentKey' = env
  /\ UNCHANGED <<uiVars, assetsOf, calls, pureVars>>

Init == UiIdle /\ BridgeIdle /\ CodecIdle /\ EncodeIdle

Next ==
  \/ ClickDisabled
  \/ \E h \in Handlers, lines \in 0..MaxBatch : ClickExecute(h, lines)
  \/ \E h \in Handlers, payload \in PayloadSamples : BridgeLine(h, payload)
  \/ \E h \in Handlers : HelpLine(h)
  \/ \E h \in Handlers : BalanceLine(h)
  \/ \E h \in Handlers : CommandSettled(h)
  \/ \E h \in Handlers : DeployLine(h)
  \/ \E h \in Handlers : DeploySettled(h)
  \/ \E h \in Handlers : BatchEnd(h)
  \/ \E h \in Handlers : BridgeStep(h)
  \/ \E h \in Handlers : ExecuteSettled(h)
  \/ WalletChange
  \/ \E env \in Environments : SetEnvironment(env)

Spec == Init /\ [][Next]_vars

\* ------------------------------------------------- the twin address effect
WalletB == "walletB"

Wallets == {WalletA, WalletB}

\* What getPredictedTwinAddress answers for a sender on the bridge contract of
\* an environment.
PredictedTwin(wallet, env) == [sender |-> wallet, bridge |-> env]

\* The effect on [baseClient, config.base.bridge, publicKey]: the cleanup of
\* the previous run sets its cancelled flag, and with a wallet connected a new
\* lookup is started.
TwinEffect(wallet, env, lookups) ==
  {[l EXCEPT !.cancelled = TRUE] : l \in lookups} \cup
    (IF Has(wallet) THEN {[sender |-> Get(wallet), bridge |-> env, cancelled |-> FALSE]}
     ELSE {})

\* The wallet adapter connects, disconnects or switches the wallet: the effect
\* runs again, and sets twinAddress to null when no wallet is connected.
TwinWalletChange(wallet) ==
  /\ wallet # publicKey
  /\ publicKey' = wallet
  /\ twinLookups' = TwinEffect(wallet, environmentKey, twinLookups)
  /\ twinAddress' = IF Has(wallet) THEN twinAddress ELSE None
  /\ UNCHANGED <<stageVars, isLocked, isExecuting, lastLog, lastClick, handlers,
                 bridgeVars, codecVars, encVars>>

\* The network is switched: config.base.bridge and baseClient change and the
\* effect runs again.
TwinConfigChange(env) ==
  /\ env # environmentKey
  /\ environmentKey' = env
  /\ twinLookups' = TwinEffect(publicKey, env, twinLookups)
  /\ twinAddress' = IF Has(publicKey) THEN twinAddress ELSE None
  /\ UNCHANGED <<uiVars, assetsOf, calls, codecVars, encVars>>

\* readContract answered or threw: unless the lookup was cancelled the answer
\* is displayed, or null after a failure.
TwinSettled(l, ok) ==
  /\ l \in twinLookups
  /\ twinLookups' = twinLookups \ {l}
  /\ twinAddress' = IF l.cancelled THEN twinAddress
                    ELSE IF ok THEN Some(PredictedTwin(l.sender, l.bridge))
                    ELSE None
  /\ UNCHANGED <<uiVars, bridgeVars, codecVars, encVars>>

TwinNext ==
  \/ \E wallet \in {None} \cup {Some(w) : w \in Wallets} : TwinWalletChange(wallet)
  \/ \E env \in Environments : TwinConfigChange(env)
  \/ \E l \in twinLookups, ok \in BOOLEAN : TwinSettled(l, ok)

SpecTwin == Init /\ [][TwinNext]_vars

\* ------------------------------------------- queueBridge called on its own
\* Batches of one bridge line each, with the wallet connecting and
\* disconnecting between them; the bridge() a batch starts is left pending.
StageNext ==
  \/ WalletChange
  \/ \E h \in Handlers : ClickExecute(h, 1)
  \/ \E h \in Handlers, payload \in StageSamples : BridgeLine(h, payload)
  \/ \E h \in Handlers : BatchEnd(h)

SpecStage == Init /\ [][StageNext]_vars

\* ------------------------------------------- bridge() called on its own
\* bridge(options) over a range of amounts, asset references, overrides and
\* preset tables.
AmountSamples ==
  { <<"1">>, <<"0">>, <<"-", "1">>, <<"x">>, <<"1", ".", "5">>, <<"0", ".", "5">>,
    <<" ", "1">>, <<" ">>, <<>> }

SymbolSamples == {NativeSymbol, SolUpper, UsdcSymbol, MintKey, MintNotAKey}

OverrideSamples ==
  { NoOverrides,
    Overrides(None, None, Some(0)),
    Overrides(None, None, Some(2)),
    Overrides(None, Some(RemoteMixedCase), None),
    Overrides(None, Some(RemoteTooShort), None),
    Overrides(None, Some(RemoteUpperPrefix), None),
    Overrides(Some(MintKeyB), None, None),
    Overrides(Some(MintKeyB), Some(RemoteMixedCase), None),
    Overrides(Some(MintKeyB), Some(RemoteMixedCase), Some(2)) }

PresetTableSamples ==
  { <<>>,
    PresetTable(DefaultEnvironment),
    << Preset(NativeSymbol, "sol", None, None, Some(WrappedSol(DefaultEnvironment))) >>,
    << Preset(NativeSymbol, "spl", Some(2), Some(MintKey), Some(RemoteMixedCase)) >>,
    << Preset(UsdcSymbol, "spl", Some(2), Some(MintKey),
              Some(WrappedSol(DefaultEnvironment))),
       Preset(NativeSymbol, "sol", Some(NativeDecimals), None, None) >> }

BridgeInit ==
  /\ UiIdle
  /\ CodecIdle
  /\ EncodeIdle
  /\ environmentKey = DefaultEnvironment
  /\ \E table \in PresetTableSamples : assetsOf = [e \in Environments |-> table]
  /\ \E amount \in AmountSamples, symbol \in SymbolSamples, overrides \in OverrideSamples :
       calls = [h \in Handlers |->
                  IF h = 1
                    THEN BridgeEntry([walletAddress |-> "wallet", amount |-> amount,
                                      assetSymbol |-> symbol,
                                      destinationAddress |-> DestinationA,
                                      overrides |-> overrides, callOptions |-> None])
                    ELSE NoBridgeCall]

BridgeNext == BridgeStep(1)

SpecBridge == BridgeInit /\ [][BridgeNext]_vars

\* ------------------------------------------------- AmountCodec specification
AmountChars == {"0", "1", "5", ".", "-", " ", "x"}

RECURSIVE Texts(_, _)
Texts(chars, n) ==
  IF n = 0 THEN {<<>>}
  ELSE LET shorter == Texts(chars, n - 1)
       IN  shorter \cup {Append(t, c) : t \in {s \in shorter : Len(s) = n - 1}, c \in chars}

NoResult == [ok |-> FALSE, units |-> 0, error |-> "none"]

CodecInit ==
  /\ codecMode \in {"parse", "format"}
  /\ codecDecimals \in 0..MaxDecimals
  /\ IF codecMode = "parse"
       THEN codecText \in Texts(AmountChars, MaxLen) /\ codecUnits = 0
       ELSE codecText = <<>> /\ codecUnits \in 1..MaxUnits
  /\ codecPc = "start"
  /\ codecParsed = NoResult
  /\ codecFormatted = <<>>
  /\ UiIdle
  /\ BridgeIdle
  /\ EncodeIdle

\* AmountCodec.parse on the given text.
CodecParse ==
  /\ codecMode = "parse" /\ codecPc = "start"
  /\ codecParsed' = BridgeAmount(codecText, codecDecimals)
  /\ codecPc' = "parsed"
  /\ UNCHANGED <<codecMode, codecText, codecDecimals, codecUnits, codecFormatted>>
  /\ UNCHANGED <<uiVars, bridgeVars, encVars, twinVars>>

\* format of the units parse returned.
CodecFormatBack ==
  /\ codecMode = "parse" /\ codecPc = "parsed" /\ codecParsed.ok
  /\ codecFormatted' = formatUnits(codecParsed.units, codecDecimals)
  /\ codecPc' = "done"
  /\ UNCHANGED <<codecMode, codecText, codecDecimals, codecUnits, codecParsed>>
  /\ UNCHANGED <<uiVars, bridgeVars, encVars, twinVars>>

\* AmountCodec.format on the given units.
CodecFormat ==
  /\ codecMode = "format" /\ codecPc = "start"
  /\ codecFormatted' = formatUnits(codecUnits, codecDecimals)
  /\ codecPc' = "formatted"
  /\ UNCHANGED <<codecMode, codecText, codecDecimals, codecUnits, codecParsed>>
  /\ UNCHANGED <<uiVars, bridgeVars, encVars, twinVars>>

\* parse of the text format returned.
CodecParseBack ==
  /\ codecMode = "format" /\ codecPc = "formatted"
  /\ codecParsed' = BridgeAmount(codecFormatted, codecDecimals)
  /\ codecPc' = "done"
  /\ UNCHANGED <<codecMode, codecText, codecDecimals, codecUnits, codecFormatted>>
  /\ UNCHANGED <<uiVars, bridgeVars, encVars, twinVars>>

CodecNext == CodecParse \/ CodecFormatBack \/ CodecFormat \/ CodecParseBack

SpecAmount == CodecInit /\ [][CodecNext]_vars

\* ------------------------------------------------- CallEncoder specification
\* Selector texts: an optional blank, an optional keyword, a gap, a name, a
\* gap, a type list and a tail, each possibly empty.
SelectorNames == {<<>>, <<"f">>, <<"t", "r", "a", "n", "s", "f", "e", "r">>, <<"C", "a", "l", "l", "_", "1">>}

SelectorLists ==
  { <<>>,
    <<"(", ")">>,
    <<"(", "u", "i", "n", "t", "8", ")">>,
    <<"(", "a", "d", "d", "r", "e", "s", "s", ",", "u", "i", "n", "t", "2", "5", "6", ")">>,
    <<"(", " ", "u", "i", "n", "t", "8", " ", ",", " ", ")">>,
    <<"(", "u", "i", "n", "t", "8">>,
    <<"(", "b", "y", "t", "e", "s", ")">>,
    <<"(", "b", "o", "o", "l", ")">>,
    <<"(", "i", "n", "t", "8", ")", "x">> }

SelectorSamples ==
  { lead \o keyword \o gap1 \o name \o gap2 \o list \o tail :
      lead \in {<<>>, <<" ">>}, keyword \in {<<>>, FunctionKeyword},
      gap1 \in {<<>>, <<" ">>}, name \in SelectorNames, gap2 \in {<<>>, <<" ">>},
      list \in SelectorLists, tail \in {<<>>, <<" ">>} }

ArgSamples ==
  { <<>>,
    << <<"5">> >>,
    << <<"0", "5">> >>,
    << <<"-", "5">> >>,
    << <<"0", "x">> >>,
    << <<"0", "x", "A", "b">> >>,
    << <<"0", "x", "g">> >>,
    << <<"t", "r", "u", "e">> >>,
    << CallTarget >>,
    << RemoteTooShort >>,
    << DestinationA, <<"1", "0", "0", "0">> >>,
    << <<"1", "0", "0", "0">>, DestinationA >> }

EncodeInit ==
  /\ UiIdle
  /\ BridgeIdle
  /\ CodecIdle
  /\ encSelector \in SelectorSamples
  /\ encArgs \in ArgSamples
  /\ encPc = "ready"
  /\ encResult = NoEncoded

\* encodeCall(contract, selector, args, value) on the given texts.
EncodeCallDone ==
  /\ encPc = "ready"
  /\ \E value \in {None, Some(<<"1">>)} :
       encResult' = encodeCall(CallTarget, encSelector, encArgs, value)
  /\ encPc' = "done"
  /\ UNCHANGED <<encSelector, encArgs>>
  /\ UNCHANGED <<uiVars, bridgeVars, codecVars, twinVars>>

EncodeNext == EncodeCallDone

SpecEncode == EncodeInit /\ [][EncodeNext]_vars

\* ------------------------------------------------- CallEncoder properties
Encoded == encPc = "done"

SelectorText == Trim(encSelector)

SyntaxError == "call selector must look like transfer(type1,type2,...)"

ArityError == "number of call args must match function selector inputs."

CoercionErrors ==
  {"arg must be a valid 0x address.", "arg must be numeric.", "arg must be hex."}

NameRun(s, from, to) == \A i \in from..to : IsNameChar(s[i])

SpaceRun(s, from, to) == \A i \in from..to : IsSpace(s[i])

\* identifier "(" anything ")"
BareForm(s) ==
  \E n \in 1..Len(s) :
    /\ NameRun(s, 1, n)
    /\ Len(s) >= n + 2 /\ s[n + 1] = "(" /\ s[Len(s)] = ")"

\* "function" blanks identifier blanks "(" anything ")"; the identifier must be
\* there when named is TRUE.
KeywordForm(s, named) ==
  /\ StartsWith(s, FunctionKeyword)
  /\ \E i \in Len(FunctionKeyword)..Len(s) :
       \E j \in i..Len(s) :
         \E k \in j..Len(s) :
           /\ SpaceRun(s, Len(FunctionKeyword) + 1, i)
           /\ NameRun(s, i + 1, j)
           /\ SpaceRun(s, j + 1, k)
           /\ named => j > i
           /\ Len(s) >= k + 2 /\ s[k + 1] = "(" /\ s[Len(s)] = ")"

\* C15 as stated: encode gets past its signature parse exactly for texts of
\* the form identifier(...) or function identifier(...); every other text
\* fails with the signature-syntax error and no descriptor.
C15_OnlyNamedSignatures ==
  Encoded =>
    /\ encResult.error # SyntaxError
         <=> (BareForm(SelectorText) \/ KeywordForm(SelectorText, TRUE))
    /\ encResult.error = SyntaxError => encResult.call = NoCall

\* C15 amended: encode gets past its signature parse exactly for texts of the
\* form identifier(...), function identifier(...) or function (...) with no
\* identifier; every other text, a bare (...) among them, fails with the
\* signature-syntax error and no descriptor.
C15_SignatureSyntax ==
  Encoded =>
    /\ encResult.error # SyntaxError
         <=> (BareForm(SelectorText) \/ KeywordForm(SelectorText, FALSE))
    /\ encResult.error = SyntaxError => encResult.call = NoCall

\* C15 witness: a type list with no identifier before it was rejected.
C15_Witness ==
  /\ Encoded
  /\ SelectorText = <<"(", "u", "i", "n", "t", "8", ")">>
  /\ encResult.error = SyntaxError
  /\ encResult.call = NoCall

\* The text between the first "(" and the closing ")" of a signature.
ListText(s) ==
  LET opens == {i \in 1..Len(s) : s[i] = "("}
      first == CHOOSE i \in opens : \A j \in opens : i <= j
  IN  SubSeq(s, first + 1, Len(s) - 1)

\* The number of comma-separated entries of a type list that are not blank.
CountTypes(t) ==
  Cardinality({a \in {0} \cup {i \in 1..Len(t) : t[i] = ","} :
                 \E j \in (a + 1)..Len(t) :
                   ~IsSpace(t[j]) /\ \A k \in (a + 1)..j : t[k] # ","})

\* C16: past the signature parse, encode goes on exactly when the number of
\* arguments equals the number of types written in the signature; with any
\* other number it fails with the arity error and no descriptor.
C16_Arity ==
  (Encoded /\ encResult.error # SyntaxError) =>
    /\ encResult.error = ArityError
         <=> Len(encArgs) # CountTypes(ListText(SelectorText))
    /\ encResult.error = ArityError => encResult.call = NoCall
    /\ encResult.error = "none" =>
         /\ encResult.call.type = "call"
         /\ Len(encResult.call.data.body[1]) = Len(encArgs)
         /\ Len(encResult.call.data.body[2]) = Len(encArgs)

\* C16 witness: transfer(address,uint256) was encoded with two arguments.
C16_Witness ==
  /\ Encoded
  /\ SelectorText = <<"t", "r", "a", "n", "s", "f", "e", "r", "(", "a", "d", "d", "r", "e", "s", "s", ",", "u", "i", "n", "t", "2", "5", "6", ")">>
  /\ Len(encArgs) = 2
  /\ encResult.error = "none"
  /\ encResult.call.type = "call"

\* transfer(address,uint256) was refused with one argument.
C16_MismatchReached ==
  /\ Encoded
  /\ SelectorText = <<"t", "r", "a", "n", "s", "f", "e", "r", "(", "a", "d", "d", "r", "e", "s", "s", ",", "u", "i", "n", "t", "2", "5", "6", ")">>
  /\ Len(encArgs) = 1
  /\ encResult.error = ArityError

\* What the specification demands of an argument of a declared type, as the
\* error its failure is reported with ("none" when it is acceptable).
TypeDemand(type, arg) ==
  IF type = <<"a", "d", "d", "r", "e", "s", "s">>
    THEN IF /\ Len(arg) = 42 /\ arg[1] = "0" /\ arg[2] = "x"
            /\ \A i \in 3..42 : IsHexChar(arg[i])
           THEN "none" ELSE "arg must be a valid 0x address."
  ELSE IF \/ (Len(type) >= 4 /\ SubSeq(type, 1, 4) = <<"u", "i", "n", "t">>)
          \/ (Len(type) >= 3 /\ SubSeq(type, 1, 3) = <<"i", "n", "t">>)
    THEN IF Len(arg) > 0 /\ \A i \in 1..Len(arg) : arg[i] \in DigitChars
           THEN "none" ELSE "arg must be numeric."
  ELSE IF Len(type) >= 5 /\ SubSeq(type, 1, 5) = <<"b", "y", "t", "e", "s">>
    THEN IF /\ Len(arg) >= 2 /\ arg[1] = "0" /\ arg[2] = "x"
            /\ \A i \in 3..Len(arg) : IsHexChar(arg[i])
           THEN "none" ELSE "arg must be hex."
  ELSE "none"

\* C17: past the arity test, encode fails with a type-coercion error exactly
\* when some argument does not meet the demand of its declared type (address:
\* 0x and 40 hex digits; uint*/int*: decimal digits only; bytes*: 0x and hex
\* digits, possibly none), the error being that of the first such argument,
\* and it returns no descriptor; arguments of any other type are passed on as
\* they are.
C17_TypeCoercion ==
  (Encoded /\ encResult.error \notin {SyntaxError, ArityError}) =>
    LET types   == ParamTypes(ListText(SelectorText))
        failing == {i \in 1..Len(encArgs) : TypeDemand(types[i], encArgs[i]) # "none"}
    IN  /\ encResult.error \in CoercionErrors <=> failing # {}
        /\ failing # {} =>
             /\ encResult.error =
                  TypeDemand(types[CHOOSE i \in failing : \A j \in failing : i <= j],
                             encArgs[CHOOSE i \in failing : \A j \in failing : i <= j])
             /\ encResult.call = NoCall
        /\ failing = {} =>
             /\ encResult.error = "none"
             /\ encResult.call.data.body[1] = types
             /\ \A i \in 1..Len(encArgs) :
                  \/ encResult.call.data.body[2][i] = encArgs[i]
                  \/ TypeDemand(types[i], <<>>) = "arg must be numeric."

\* C17 witness: an argument of type bool was passed on unvalidated.
C17_Witness ==
  /\ Encoded
  /\ SelectorText = <<"f", "(", "b", "o", "o", "l", ")">>
  /\ encArgs = << <<"t", "r", "u", "e">> >>
  /\ encResult.error = "none"
  /\ encResult.call.data.body[2] = << <<"t", "r", "u", "e">> >>

\* Each of the three coercion errors was raised.
C17_AddressRefused == Encoded /\ encResult.error = "arg must be a valid 0x address."

C17_NumberRefused == Encoded /\ encResult.error = "arg must be numeric."

C17_BytesRefused == Encoded /\ encResult.error = "arg must be hex."

\* The identifier that starts at position a of s (empty when none does).
NameFrom(s, a) ==
  SubSeq(s, a, CHOOSE j \in (a - 1)..Len(s) :
                 NameRun(s, a, j) /\ (j = Len(s) \/ ~IsNameChar(s[j + 1])))

\* The identifier written before the parenthesis: after the keyword and its
\* blanks when the text begins with "function" and a blank, else at the start.
WrittenName(s) ==
  IF StartsWith(s, FunctionKeyword) /\ Len(s) > Len(FunctionKeyword)
     /\ IsSpace(s[Len(FunctionKeyword) + 1])
    THEN NameFrom(s, CHOOSE a \in (Len(FunctionKeyword) + 1)..(Len(s) + 1) :
                       /\ SpaceRun(s, Len(FunctionKeyword) + 1, a - 1)
                       /\ (a = Len(s) + 1 \/ ~IsSpace(s[a])))
    ELSE NameFrom(s, 1)

\* C18: a descriptor's payload encodes the function name, the types and the
\* argument values of the request, the name being the whole identifier written
\* before the parenthesis, for every signature that has one.
C18_FullNameEncoded ==
  (Encoded /\ encResult.error = "none" /\ WrittenName(SelectorText) # <<>>) =>
    /\ encResult.call.data.fn = WrittenName(SelectorText)
    /\ encResult.call.data.body[1] = ParamTypes(ListText(SelectorText))
    /\ Len(encResult.call.data.body[2]) = Len(encArgs)

\* The payloads whose name is the written identifier: every signature whose
\* identifier does not begin with the letters of the keyword.
C18_NameEncodedUnlessKeywordPrefix ==
  (Encoded /\ encResult.error = "none" /\ WrittenName(SelectorText) # <<>>
   /\ ~StartsWith(WrittenName(SelectorText), FunctionKeyword)) =>
    encResult.call.data.fn = WrittenName(SelectorText)

\* ---------------------------------------------------- AmountCodec properties
\* The numeric value of a decimal text, scaled by 10^k (k at least its number of
\* fraction digits), computed from the digits alone.
ScaledValue(text, k) ==
  LET t     == Trim(text)
      neg   == t # <<>> /\ Head(t) = "-"
      body  == IF neg THEN Tail(t) ELSE t
      dot   == FirstDotFrom(body, 1)
      whole == IF dot = 0 THEN body ELSE SubSeq(body, 1, dot - 1)
      frac  == IF dot = 0 THEN <<>> ELSE SubSeq(body, dot + 1, Len(body))
      mag   == DigitsToInt(whole) * Pow10(k) + DigitsToInt(frac) * Pow10(k - Len(frac))
  IN  IF neg THEN 0 - mag ELSE mag

ValueScale == IF MaxLen > MaxDecimals THEN MaxLen ELSE MaxDecimals

\* What is wrong with an amount text, read off the text itself.
AmountDefect(text, decimals) ==
  LET t     == Trim(text)
      neg   == t # <<>> /\ Head(t) = "-"
      body  == IF neg THEN Tail(t) ELSE t
      dot   == FirstDotFrom(body, 1)
      whole == IF dot = 0 THEN body ELSE SubSeq(body, 1, dot - 1)
      frac  == IF dot = 0 THEN <<>> ELSE SubSeq(body, dot + 1, Len(body))
  IN  IF t = <<>> THEN "Empty"
      ELSE IF ~(AllChars(whole, IsDigit) /\ AllChars(frac, IsDigit)
                /\ Len(whole) + Len(frac) > 0) THEN "NonNumeric"
      ELSE IF Len(frac) > decimals THEN "PrecisionExceeded"
      ELSE IF ScaledValue(t, ValueScale) <= 0 THEN "NonPositive"
      ELSE "none"

\* The failure kind an error message of the amount path stands for.
ReportedKind(error) ==
  CASE error = "Amount is required." -> "Empty"
    [] error = "Amount must be greater than zero." -> "NonPositive"
    [] error = "too many decimals for format" -> "PrecisionExceeded"
    [] error = "Invalid amount. Provide a numeric value." -> "NonNumeric"
    [] OTHER -> "none"

\* C7: every invalid amount text is refused with the failure kind of its own
\* defect: Empty, NonNumeric, PrecisionExceeded or NonPositive.
C7_EachDefectItsKind ==
  (codecMode = "parse" /\ codecPc = "parsed" /\ AmountDefect(codecText, codecDecimals) # "none")
    => (~codecParsed.ok /\ ReportedKind(codecParsed.error) = AmountDefect(codecText, codecDecimals))

\* C9: conversion is an exact round trip: parse(format(u, d), d) = u for every
\* positive u, and format(parse(s, d), d) denotes the same number as s for every
\* text s that parse accepts.
C9_RoundTrip ==
  /\ (codecMode = "format" /\ codecPc = "done")
       => (codecParsed.ok /\ codecParsed.units = codecUnits)
  /\ (codecMode = "parse" /\ codecPc = "done")
       => /\ ScaledValue(codecFormatted, ValueScale) = ScaledValue(codecText, ValueScale)
          /\ codecParsed.units * Pow10(ValueScale - codecDecimals)
               = ScaledValue(codecText, ValueScale)

\* C9 witness: "0.5" at 2 decimals was parsed to 50 and formatted back.
C9_Witness ==
  /\ codecMode = "parse" /\ codecPc = "done"
  /\ codecText = <<"0", ".", "5">> /\ codecDecimals = 2
  /\ codecParsed.units = 50
  /\ codecFormatted = <<"0", ".", "5">>

\* ------------------------------------------------- bridge() properties
Validated == {"asset", "amount", "balance"}

\* C4: asset resolution, amount parsing and the balance check have all passed
\* before the signer is invoked or anything is broadcast; a bridge() in which
\* one of them failed has signed nothing and broadcast nothing.
C4_ValidationBeforeSigning ==
  \A h \in Handlers :
    /\ (calls[h].signs > 0 \/ calls[h].sends > 0
        \/ calls[h].pc \in {"sign", "broadcast", "confirm", "fulfilled"})
         => Validated \subseteq calls[h].passed
    /\ (calls[h].pc = "rejected" /\ ~(Validated \subseteq calls[h].passed))
         => (calls[h].signs = 0 /\ calls[h].sends = 0)

\* C4 witness: a signed transaction is being broadcast after all three
\* validations passed.
C4_Witness ==
  \E h \in Handlers :
    /\ calls[h].pc = "broadcast" /\ calls[h].sends = 1
    /\ Validated \subseteq calls[h].passed

\* C8: the amount of a request that has reached the balance check, the
\* transaction builder or submission is an integer greater than zero.
C8_PositiveAmount ==
  \A h \in Handlers :
    /\ calls[h].pc \in {"getBalance", "getAccount", "build", "sign", "broadcast",
                        "confirm", "fulfilled"}
         => calls[h].units > 0
    /\ calls[h].signs > 0 => calls[h].transaction.amount > 0

\* C8 witness: a transaction of one lamport-scale unit or more was built from
\* the text "0.5" and handed to the signer.
C8_Witness ==
  \E h \in Handlers :
    /\ calls[h].pc = "sign"
    /\ calls[h].options.amount = <<"0", ".", "5">>
    /\ calls[h].transaction.amount > 0

\* C10: the resolved asset is of kind token whenever the asset text matches the
\* mint pattern, or the overrides give a mint, a remote or a decimals value (0
\* included), or the normalized symbol is not the native symbol.
C10_TokenKind ==
  \A h \in Handlers :
    LET options == calls[h].options
        text    == Trim(options.assetSymbol)
    IN  ("asset" \in calls[h].passed
         /\ \/ IsMintPattern(text)
            \/ Has(OverrideField(options.overrides, "mint"))
            \/ Has(OverrideField(options.overrides, "remote"))
            \/ Has(OverrideField(options.overrides, "decimals"))
            \/ ToLowerCase(text) # NativeSymbol)
        => calls[h].asset.type = "spl"

\* ------------------------------------------------- AssetResolver properties
\* The request of a bridge() call as resolveAssetDefinition sees it.
AssetText(h) == Trim(calls[h].options.assetSymbol)

OverrideOf(h, field) == OverrideField(calls[h].options.overrides, field)

PresetOf(h, field) ==
  BaseField(FindAsset(assetsOf[environmentKey], ToLowerCase(AssetText(h))), field)

Returned(h) == "asset" \in calls[h].passed

\* C11 as stated: whenever an override for mint, remote or decimals is
\* supplied, the resolved descriptor carries the override value (the remote in
\* its lower-case spelling) rather than a preset or any other derived value.
C11_OverridesAlwaysWin ==
  \A h \in Handlers :
    Returned(h) =>
      /\ Has(OverrideOf(h, "mint")) => calls[h].asset.mint = OverrideOf(h, "mint")
      /\ Has(OverrideOf(h, "remote"))
           => calls[h].asset.remoteAddress = ToLowerCase(Get(OverrideOf(h, "remote")))
      /\ Has(OverrideOf(h, "decimals"))
           => calls[h].asset.decimals = OverrideOf(h, "decimals")

\* C11 amended: a supplied remote or decimals override is the descriptor's
\* remote (lower-cased) or decimals, whatever the preset says; a supplied mint
\* override is the descriptor's mint unless the asset text is itself a literal
\* mint, and then the literal is the mint.
C11_OverridesWinOverPreset ==
  \A h \in Handlers :
    Returned(h) =>
      /\ Has(OverrideOf(h, "mint"))
           => calls[h].asset.mint = IF IsMintPattern(AssetText(h)) THEN Some(AssetText(h))
                                    ELSE OverrideOf(h, "mint")
      /\ Has(OverrideOf(h, "remote"))
           => calls[h].asset.remoteAddress = ToLowerCase(Get(OverrideOf(h, "remote")))
      /\ Has(OverrideOf(h, "decimals"))
           => calls[h].asset.decimals = OverrideOf(h, "decimals")

\* C11 witness: a descriptor was returned whose mint and remote are the
\* overrides although the preset of the symbol gives another mint and another
\* remote.
C11_Witness ==
  \E h \in Handlers :
    /\ Returned(h)
    /\ Has(OverrideOf(h, "mint")) /\ Has(PresetOf(h, "mintAddress"))
    /\ OverrideOf(h, "mint") # PresetOf(h, "mintAddress")
    /\ calls[h].asset.mint = OverrideOf(h, "mint")
    /\ Has(OverrideOf(h, "remote")) /\ Has(PresetOf(h, "remoteAddress"))
    /\ calls[h].asset.remoteAddress # ToLowerCase(Get(PresetOf(h, "remoteAddress")))

\* resolveAssetDefinition was entered: bridge() got past its blank-amount test
\* and the address resolver.
ResolveRan(h) ==
  /\ calls[h].pc \notin {"none", "resolveAddress"}
  /\ calls[h].error # "Amount is required."

SuppliedRemote(h) == Coalesce(OverrideOf(h, "remote"), PresetOf(h, "remoteAddress"))

C12_InvalidRemoteReached ==
  \E h \in Handlers :
    /\ OverrideOf(h, "remote") = Some(RemoteTooShort)
    /\ calls[h].error = "Invalid remote token address."

\* A 20-byte hex address in lower case.
IsLowerCaseAddress(s) ==
  /\ Len(s) = 2 + EvmAddressLength
  /\ s[1] = "0" /\ s[2] = "x"
  /\ \A i \in 3..Len(s) : IsDigit(s[i]) \/ s[i] \in {"a", "b", "c", "d", "e", "f"}

\* C13: every returned descriptor has a remote that is a 20-byte hex address in
\* lower case, and one of kind token has a source-chain token identity; a
\* token-kind resolve with a valid remote and no mint from the input, the
\* overrides or the preset fails with "Mint address is required.".
C13_DescriptorWellFormed ==
  \A h \in Handlers :
    /\ Returned(h)
         => /\ IsLowerCaseAddress(calls[h].asset.remoteAddress)
            /\ calls[h].asset.type \in {"sol", "spl"}
            /\ calls[h].asset.type = "spl"
                 => Has(calls[h].asset.mint) /\ Len(Get(calls[h].asset.mint)) > 0
    /\ (/\ ResolveRan(h)
        /\ ToLowerCase(AssetText(h)) # NativeSymbol
        /\ TruthyText(SuppliedRemote(h))
        /\ IsLowerCaseAddress(ToLowerCase(Get(SuppliedRemote(h))))
        /\ ~IsMintPattern(AssetText(h))
        /\ ~Has(OverrideOf(h, "mint")) /\ ~Has(PresetOf(h, "mintAddress")))
         => /\ calls[h].pc = "rejected"
            /\ calls[h].error = "Mint address is required."
            /\ ~Returned(h)

\* C13 witness: a token descriptor was returned for a remote supplied in mixed
\* case; it carries the lower-case remote and a mint.
C13_Witness ==
  \E h \in Handlers :
    /\ Returned(h) /\ calls[h].asset.type = "spl"
    /\ OverrideOf(h, "remote") = Some(RemoteMixedCase)
    /\ calls[h].asset.remoteAddress # RemoteMixedCase
    /\ Has(calls[h].asset.mint)

\* A token-kind resolve without any mint was rejected.
C13_MissingMintReached ==
  \E h \in Handlers : calls[h].error = "Mint address is required."

\* The decimals the overrides or, failing them, the preset give.
DecimalsGiven(h) == Coalesce(OverrideOf(h, "decimals"), PresetOf(h, "decimals"))

\* C14: the decimals of a returned descriptor are the override's when one is
\* supplied, else the preset's when it has them, else for a token what the
\* on-chain mint lookup answered, else for the native asset 9; the mint lookup
\* is made only when override and preset give none, its failure is swallowed,
\* and "Unable to determine decimals." is raised exactly for a token whose
\* override, preset and lookup all gave none.
C14_DecimalsOrder ==
  \A h \in Handlers :
    /\ (Returned(h) /\ Has(OverrideOf(h, "decimals")))
         => calls[h].asset.decimals = OverrideOf(h, "decimals")
    /\ (Returned(h) /\ ~Has(OverrideOf(h, "decimals")) /\ Has(PresetOf(h, "decimals")))
         => calls[h].asset.decimals = PresetOf(h, "decimals")
    /\ (Returned(h) /\ ~Has(DecimalsGiven(h)) /\ calls[h].asset.type = "spl")
         => /\ Has(calls[h].asset.decimals)
            /\ Get(calls[h].asset.decimals) \in MintDecimalChoices
            /\ calls[h].reads >= 2
    /\ (Returned(h) /\ ~Has(DecimalsGiven(h)) /\ calls[h].asset.type = "sol")
         => calls[h].asset.decimals = Some(9)
    /\ calls[h].pc = "getMint" => ~Has(DecimalsGiven(h)) /\ calls[h].asset.type = "spl"
    /\ calls[h].error = "Unable to determine decimals."
         => /\ ~Has(DecimalsGiven(h))
            /\ calls[h].asset.type = "spl" /\ ~Has(calls[h].asset.decimals)
            /\ calls[h].pc = "rejected" /\ ~Returned(h)
            /\ calls[h].reads = 2
    /\ (ResolveRan(h) /\ calls[h].reads >= 2 /\ ~Has(calls[h].asset.decimals)
        /\ calls[h].pc # "getMint")
         => calls[h].error = "Unable to determine decimals."

\* C14 witness: the native symbol, with no decimals from the overrides or the
\* preset, resolved to kind native with decimals 9.
C14_Witness ==
  \E h \in Handlers :
    /\ Returned(h)
    /\ ToLowerCase(AssetText(h)) = NativeSymbol
    /\ Has(PresetOf(h, "symbol")) /\ ~Has(DecimalsGiven(h))
    /\ calls[h].asset.type = "sol"
    /\ calls[h].asset.decimals = Some(9)

\* A token's decimals came from the mint lookup; another token's lookup failed
\* and the resolve ended with the unknown-decimals error.
C14_LookupReached ==
  \E h \in Handlers :
    /\ Returned(h) /\ ~Has(DecimalsGiven(h)) /\ calls[h].asset.type = "spl"

C14_UnknownReached ==
  \E h \in Handlers : calls[h].error = "Unable to determine decimals."

\* ------------------------------------------------- terminal properties
StageCleared ==
  /\ pendingBridge = None /\ bridgeOverrides = None
  /\ pendingCall = None /\ pendingCallMeta = None

\* C1: the request executed for a freshly staged instruction carries exactly
\* that instruction's payload, overrides and call; nothing of a previously
\* pending stage is carried over, also when the new instruction has no call or
\* no overrides.
C1_ExecutesNewStageOnly ==
  \A h \in Handlers :
    (handlers[h].pc = "awaitBridge" /\ Has(handlers[h].latestStage))
      => LET stage == Get(handlers[h].latestStage)
         IN  /\ calls[h].options.amount = stage.payload.amount
             /\ calls[h].options.assetSymbol = stage.payload.asset
             /\ calls[h].options.overrides = stage.overrides
             /\ calls[h].options.callOptions = stage.call

\* C2: when an execution settles, the stage is destroyed after a successful
\* submission and after a sign rejection, and is left exactly as it was after
\* every other failure.
C2_SettlePolicy ==
  [][\A h \in Handlers :
       (handlers[h].pc = "awaitBridge" /\ handlers'[h].pc = "idle")
         => IF calls[h].pc = "fulfilled" \/ calls[h].error = "User rejected the request."
              THEN StageCleared'
              ELSE UNCHANGED stageVars]_vars

\* C2 witness: an execution failed on the balance check and its stage is still
\* pending.
C2_Witness ==
  /\ lastLog = "Insufficient SOL balance."
  /\ ~isExecuting
  /\ Has(pendingBridge)

InFlight == {h \in Handlers : calls[h].pc # "none"}

WaitNotice == "another command is still running"

\* C3 as stated: an execution request made while an execution is in flight is
\* answered with the wait notice.
C3_RejectedWithWaitNotice ==
  [][(isExecuting /\ lastClick' # lastClick) => lastLog' = WaitNotice]_vars

\* C3: while an execution is in flight the Execute button is disabled: a click
\* invokes no handler, writes no notice and changes nothing, no handler starts
\* and no second bridge() call is made, so at most one call is in flight.
C3_MutualExclusion ==
  [][/\ Cardinality(InFlight') <= 1
     /\ isExecuting => \A h \in Handlers :
                         handlers[h].pc = "idle" => handlers'[h].pc = "idle"
     /\ (isExecuting /\ lastClick' # lastClick)
          => /\ lastClick' = "discarded"
             /\ UNCHANGED <<stageVars, isLocked, isExecuting, lastLog, handlers, calls>>]_vars

\* C3 witness: a click was discarded while a transaction was at the signer.
C3_Witness ==
  /\ isExecuting /\ lastClick = "discarded"
  /\ \E h \in Handlers : calls[h].pc = "sign"

ResolutionErrors ==
  {"Remote Base token address is required.", "Invalid remote token address.",
   "Mint address is required.", "Invalid public key input",
   "Unable to determine decimals."}

AmountErrors == {"Amount is required.", "Invalid amount. Provide a numeric value."}

EncodingErrors ==
  {Queued[p, e].log : p \in {q \in PayloadSamples : Has(q.flags.callContract)},
                      e \in Environments}
    \ {"attached call", "bc-fee must be an integer between 0 and 255 (uint8)."}

\* C5 as stated: a bridge() that failed on asset resolution or on the amount
\* has made no chain interaction at all: no read, no signing, no broadcast.
C5_ErrorsBeforeAnyChainInteraction ==
  \A h \in Handlers :
    (calls[h].pc = "rejected" /\ calls[h].error \in ResolutionErrors \cup AmountErrors)
      => (calls[h].reads = 0 /\ calls[h].signs = 0 /\ calls[h].sends = 0)

\* C5: a bridge() that failed on asset resolution or on the amount has signed
\* and broadcast nothing; it has read the chain only for a token asset (the mint
\* account and mint metadata lookups) and only when the failure is unknown
\* decimals or a bad non-blank amount; a call-encoding error arises while the
\* line is staged, before any bridge() call exists for it.
C5_ErrorsBeforeSigning ==
  \A h \in Handlers :
    /\ (calls[h].pc = "rejected" /\ calls[h].error \in ResolutionErrors \cup AmountErrors)
         => /\ calls[h].signs = 0 /\ calls[h].sends = 0
            /\ calls[h].reads > 0
                 => /\ calls[h].asset.type = "spl"
                    /\ calls[h].reads <= 2
                    /\ calls[h].error \in {"Unable to determine decimals.",
                                           "Invalid amount. Provide a numeric value."}
    /\ (handlers[h].pc = "loop" /\ lastLog \in EncodingErrors) => calls[h].pc = "none"

\* C5 witness: a token amount was refused after the two mint lookups, with
\* nothing signed.
C5_Witness ==
  \E h \in Handlers :
    /\ calls[h].pc = "rejected"
    /\ calls[h].error = "Invalid amount. Provide a numeric value."
    /\ calls[h].reads = 2 /\ calls[h].signs = 0

\* C6: a bridge line rejected at staging (call-encoding error, builder fee out
\* of range) leaves pendingBridge, bridgeOverrides, pendingCall and
\* pendingCallMeta as they were.
C6_RejectedLineChangesNothing ==
  [][\A h \in Handlers, p \in PayloadSamples :
       (Has(pendingBridge) /\ BridgeLine(h, p)
        /\ ~Queued[p, handlers[h].snap.environment].staged)
         => UNCHANGED stageVars]_vars

\* ------------------------------------------------- staging properties
\* 0x followed by 40 hex digits.
IsTargetAddress(t) ==
  /\ Len(t) = 42 /\ t[1] = "0" /\ t[2] = "x"
  /\ \A i \in 3..42 : IsHexChar(t[i])

\* The targets of a call descriptor: its own and, for a multicall, those of the
\* calls it wraps.
TargetsAreAddresses(call) ==
  /\ IsTargetAddress(call.target)
  /\ call.type = "delegatecall"
       => \A i \in 1..Len(call.data.body) : IsTargetAddress(call.data.body[i].target)

\* C19: every call descriptor that is staged (pendingCall, the stage
\* queueBridge returned) or handed to bridge() for the transaction builder has
\* a 20-byte hex address as its target, and so has each call inside a
\* multicall; a call with another target is never staged.
C19_StagedTargetsAreAddresses ==
  /\ Has(pendingCall) => TargetsAreAddresses(Get(pendingCall))
  /\ \A h \in Handlers :
       /\ (Has(handlers[h].latestStage) /\ Has(Get(handlers[h].latestStage).call))
            => TargetsAreAddresses(Get(Get(handlers[h].latestStage).call))
       /\ Has(calls[h].options.callOptions)
            => TargetsAreAddresses(Get(calls[h].options.callOptions))

\* The calls the composer builds itself do go to addresses.
C19_ComposedTargetsAreAddresses ==
  Has(pendingCall) =>
    \/ Get(pendingCall).type = "call" /\ Get(pendingCall).data.fn # <<"s", "e", "n", "d">>
    \/ IsTargetAddress(Get(pendingCall).target)

\* The builder call inside a staged call descriptor.
BuilderPart(call) ==
  IF call.type = "delegatecall" THEN call.data.body[1].callData ELSE call.data

FeeError == "bc-fee must be an integer between 0 and 255 (uint8)."

\* A staged line with a builder code carries a whole fee from 0 to 255.
StagedFeeInRange(payload) ==
  (Has(payload.flags.withBc) /\ Len(Get(payload.flags.withBc)) > 0 /\ Has(payload.flags.bcFee))
    => /\ Get(payload.flags.bcFee).tenths = 0
       /\ Get(payload.flags.bcFee).int \in 0..255

\* C20: a stage, and the bridge() call made from it, carries a builder code
\* only with a fee that is a whole number from 0 to 255 (0 when none is
\* given), and its call descriptor then holds the fee-routing call with that
\* fee; a line refused with the fee-range error has staged nothing: the
\* staging is as the batch found it, no stage is returned and no bridge() call
\* is made for it.
C20_FeeRange ==
  /\ Has(pendingBridge) =>
       /\ StagedFeeInRange(Get(pendingBridge))
       /\ TruthyText(Get(pendingBridge).flags.withBc) =>
            /\ Has(pendingCall)
            /\ BuilderPart(Get(pendingCall)).fn = <<"s", "e", "n", "d">>
            /\ BuilderPart(Get(pendingCall)).body[3][3] =
                 IF Has(Get(pendingBridge).flags.bcFee) THEN Get(Get(pendingBridge).flags.bcFee)
                 ELSE [int |-> 0, tenths |-> 0]
  /\ \A h \in Handlers :
       /\ Has(handlers[h].latestStage)
            => StagedFeeInRange(Get(handlers[h].latestStage).payload)
       /\ (handlers[h].pc = "loop" /\ lastLog = FeeError) =>
            /\ handlers[h].latestStage = None /\ ~handlers[h].hasBridgeCommand
            /\ pendingBridge = handlers[h].snap.pendingBridge
            /\ pendingCall = handlers[h].snap.pendingCall
            /\ bridgeOverrides = handlers[h].snap.bridgeOverrides
            /\ calls[h].pc = "none"
       /\ calls[h].pc # "none" =>
            /\ Has(handlers[h].latestStage)
            /\ calls[h].options.amount = Get(handlers[h].latestStage).payload.amount

\* C20 witness: a line was refused for its fee and nothing is staged.
C20_Witness ==
  /\ lastLog = FeeError
  /\ pendingBridge = None /\ pendingCall = None /\ bridgeOverrides = None
  /\ \E h \in Handlers : handlers[h].pc = "loop" /\ handlers[h].latestStage = None

\* A line with a builder code and the fee 255 is staged and being executed.
C20_TopFeeReached ==
  \E h \in Handlers :
    /\ calls[h].pc # "none"
    /\ Has(pendingBridge) /\ Get(pendingBridge).flags.bcFee = Some([int |-> 255, tenths |-> 0])

\* ------------------------------------------------- composer properties
\* The staged line has a builder code / a user call.
StagedWithBuilder ==
  Has(pendingBridge) /\ TruthyText(Get(pendingBridge).flags.withBc)

StagedWithUserCall ==
  /\ Has(pendingBridge)
  /\ TruthyText(Get(pendingBridge).flags.callContract)
  /\ TruthyText(Get(pendingBridge).flags.callSelector)

\* C21: for a staged line with a builder code, the staged call is the
\* fee-routing call itself (send on the flywheel contract) when the line has no
\* user call; when it has one, the staged call is one delegatecall to the
\* multicall contract whose call list is the fee-routing call first and the
\* user call, to the line's contract with the line's payload, second.
C21_MergeOrder ==
  StagedWithBuilder =>
    /\ Has(pendingCall)
    /\ ~StagedWithUserCall =>
         /\ Get(pendingCall).type = "call"
         /\ Get(pendingCall).target = FLYWHEEL_ADDRESS
         /\ Get(pendingCall).data.fn = <<"s", "e", "n", "d">>
         /\ Get(pendingCall).data.body[1] = BRIDGE_CAMPAIGN_ADDRESS
    /\ StagedWithUserCall =>
         /\ Get(pendingCall).type = "delegatecall"
         /\ Get(pendingCall).target = MULTICALL_ADDRESS
         /\ Len(Get(pendingCall).data.body) = 2
         /\ Get(pendingCall).data.body[1].target = FLYWHEEL_ADDRESS
         /\ Get(pendingCall).data.body[1].callData.fn = <<"s", "e", "n", "d">>
         /\ Get(pendingCall).data.body[2].target = Get(Get(pendingBridge).flags.callContract)
         /\ Get(pendingCall).data.body[2].callData.fn = <<"f">>
         /\ Get(pendingCall).data.body[2].callData.body[2] =
              Get(Get(pendingBridge).flags.callArgs)

\* C21 witness: a line with a builder code and a user call is staged as a
\* multicall of two calls.
C21_Witness ==
  /\ StagedWithBuilder /\ StagedWithUserCall
  /\ Get(pendingCall).type = "delegatecall"
  /\ Len(Get(pendingCall).data.body) = 2

\* A line with a builder code and no user call is staged.
C21_BuilderAloneReached ==
  StagedWithBuilder /\ ~StagedWithUserCall /\ Has(pendingCall)

\* ------------------------------------------------- BalanceGuard properties
\* C22: the native balance check fails with "Insufficient SOL balance."
\* exactly when the balance read is less than the amount in base units (an
\* equal balance passes); after that failure no transaction has been built,
\* signed or broadcast.
C22_NativeBalanceGuard ==
  \A h \in Handlers :
    /\ Has(calls[h].available) =>
         /\ calls[h].asset.type = "sol"
         /\ calls[h].error = "Insufficient SOL balance."
              <=> Get(calls[h].available) < calls[h].units
         /\ Get(calls[h].available) >= calls[h].units => "balance" \in calls[h].passed
    /\ calls[h].error = "Insufficient SOL balance." =>
         /\ Has(calls[h].available)
         /\ calls[h].pc = "rejected"
         /\ "balance" \notin calls[h].passed
         /\ calls[h].transaction = NoTransaction
         /\ calls[h].signs = 0 /\ calls[h].sends = 0

\* C22 witness: a balance equal to the amount passed the check and the
\* transaction went to the signer.
C22_Witness ==
  \E h \in Handlers :
    /\ Has(calls[h].available)
    /\ Get(calls[h].available) = calls[h].units
    /\ calls[h].pc = "sign"

\* A balance below the amount was refused.
C22_RefusalReached ==
  \E h \in Handlers : calls[h].error = "Insufficient SOL balance."


\* The token account was looked up and found missing.
AccountMissing(h) == calls[h].account = "missing"

\* The token account was found holding less than the amount to bridge.
AccountShort(h) ==
  /\ calls[h].account = "found"
  /\ Get(calls[h].held) < calls[h].units

\* C23: the token check never fails on the state of the account, and for a
\* missing account it returns a result that differs from the result it
\* returns for any existing account.
C23_TokenAccountState ==
  \A h \in Handlers :
    calls[h].account # "unread" =>
      /\ "balance" \in calls[h].passed
      /\ AccountMissing(h) =>
           \A b \in LamportChoices :
             [tokenAccount |-> calls[h].tokenAccount] # SplBalanceCheckResult(Some(b))

\* The part of C23 the code keeps: once getAccount has answered, whatever it
\* answered, the balance stage is passed and no balance error is raised.
C23_NeverHardFails ==
  \A h \in Handlers :
    calls[h].account # "unread" =>
      /\ "balance" \in calls[h].passed
      /\ calls[h].error # "Insufficient SOL balance."

C23_MissingPassed ==
  \E h \in Handlers : AccountMissing(h) /\ calls[h].pc = "build"

C23_ShortSubmitted ==
  \E h \in Handlers : AccountShort(h) /\ calls[h].sends = 1

\* C24: a bridge transaction signed for a request whose token account was
\* missing carries the instruction that creates the account, and the signer
\* and the network see that one transaction only.
C24_CreationInSameTransaction ==
  \A h \in Handlers :
    AccountMissing(h) /\ calls[h].signs > 0 =>
      /\ calls[h].transaction.createsAccount
      /\ calls[h].signs = 1
      /\ calls[h].sends <= 1

\* The part of C24 the code keeps: one call signs and broadcasts at most one
\* transaction, so no creation transaction precedes the bridge transaction.
C24_NoSeparateCreation ==
  \A h \in Handlers : calls[h].signs <= 1 /\ calls[h].sends <= calls[h].signs

C24_MissingSubmitted ==
  \E h \in Handlers : AccountMissing(h) /\ calls[h].sends = 1


\* ------------------------------------------------- builder input properties
\* The stage an execution in flight was started for.
ExecutedStage(h) == Get(handlers[h].latestStage)

\* The execution of handler h has had its transaction built.
Built(h) == handlers[h].pc = "awaitBridge" /\ calls[h].signs > 0

\* C25: the transaction builder is given the resolved destination of the
\* executed request, the remote address of the resolved asset, the amount in
\* base units and the call staged with the request (none when the request
\* staged none), with or without a builder code.
C25_BuilderGivenRequest ==
  \A h \in Handlers :
    Built(h) =>
      /\ calls[h].transaction.destinationAddress
           = ResolveAddress(ExecutedStage(h).payload.destination)
      /\ calls[h].transaction.remoteAddress = calls[h].asset.remoteAddress
      /\ calls[h].transaction.amount = calls[h].units
      /\ calls[h].transaction.call = ExecutedStage(h).call

\* The parts of C25 the code keeps: the remote address and the amount are
\* those resolved for the call, and the destination is the request's own
\* unless a builder code is attached, when it is the campaign address.
C25_AmountRemoteDestination ==
  \A h \in Handlers :
    Built(h) =>
      /\ calls[h].transaction.remoteAddress = calls[h].asset.remoteAddress
      /\ calls[h].transaction.amount = calls[h].units
      /\ calls[h].units > 0
      /\ calls[h].transaction.destinationAddress
           = IF Has(ExecutedStage(h).payload.flags.withBc)
               THEN ResolveAddress(BRIDGE_CAMPAIGN_ADDRESS)
               ELSE ResolveAddress(ExecutedStage(h).payload.destination)

C25_BuilderCodeBuilt ==
  \E h \in Handlers :
    /\ Built(h) /\ Has(ExecutedStage(h).payload.flags.withBc)
    /\ calls[h].transaction.destinationAddress # ExecutedStage(h).payload.destination

C25_StaleCallBuilt ==
  \E h \in Handlers :
    /\ Built(h) /\ ~Has(ExecutedStage(h).payload.flags.withBc)
    /\ ~Has(ExecutedStage(h).call) /\ Has(calls[h].transaction.call)


\* ------------------------------------------------- manual retry properties
\* The messages bridge() fails with that leave the stage pending.
PreservingFailures ==
  ResolutionErrors \cup AmountErrors \cup
    {"Insufficient SOL balance.", "RPC request failed.",
     "Failed to build bridge transaction.", "Transaction broadcast failed.",
     "Transaction confirmation timed out."}

\* The last thing logged is the failure of an execution that left its stage
\* pending; nothing has run since.
PreservedAfterFailure ==
  /\ lastLog \in PreservingFailures
  /\ Has(pendingBridge)
  /\ ~isExecuting /\ ~isLocked

\* C26: with a stage preserved after a failure and the wallet connected, an
\* execution request without a new bridge instruction starts the execution of
\* the pending stage.
C26_PreservedStageRetried ==
  [][\A h \in Handlers :
       (PreservedAfterFailure /\ Has(publicKey) /\ ClickExecute(h, 0))
         => (isExecuting' /\ calls'[h].pc # "none")]_vars

\* What the code does instead: every bridge() call in flight was started by a
\* batch for a stage that batch staged itself, so a pending stage is never
\* executed without being staged again.
C26_ExecutesOnlyWhatTheBatchStaged ==
  \A h \in Handlers :
    calls[h].pc # "none" =>
      /\ Has(handlers[h].latestStage)
      /\ handlers[h].hasBridgeCommand

C26_PreservedReached == PreservedAfterFailure /\ Has(publicKey)

\* A batch without a bridge line ended while a stage was pending and the
\* wallet connected.
C26_BatchWithoutBridgeLine ==
  /\ lastLog = "commands processed."
  /\ Has(pendingBridge) /\ Has(publicKey)


\* ------------------------------------------------- batch execution properties
\* The handler is in the command loop of its batch.
InBatchLoop(h) == handlers[h].pc \in {"loop", "awaitCommand", "awaitDeploy"}

\* C27: one batch starts at most one bridge execution. The execution starts
\* when every line of the batch has been processed and its lock released, for
\* the last bridge line of the batch that staged (the one whose payload is
\* pending), with the amount, asset and wallet of that line; while the batch
\* has staged nothing the pending stage is the one it found and no execution
\* starts; once started, the handler only waits for it and returns.
C27_OneExecutionPerBatch ==
  [][\A h \in Handlers :
       /\ (calls[h].pc = "none" /\ calls'[h].pc # "none")
            => /\ handlers[h].pc = "loop" /\ handlers[h].linesLeft = 0
               /\ handlers'[h].pc = "awaitBridge"
               /\ ~isLocked
               /\ Has(handlers[h].latestStage)
               /\ pendingBridge = Some(Get(handlers[h].latestStage).payload)
               /\ calls'[h].options.amount = Get(pendingBridge).amount
               /\ calls'[h].options.assetSymbol = Get(pendingBridge).asset
       /\ InBatchLoop(h)'
            => pendingBridge' = IF Has(handlers'[h].latestStage)
                                  THEN Some(Get(handlers'[h].latestStage).payload)
                                  ELSE handlers'[h].snap.pendingBridge
       /\ handlers[h].pc = "awaitBridge"
            => /\ handlers'[h].pc \in {"awaitBridge", "idle"}
               /\ handlers'[h].pc = "awaitBridge" => calls'[h].options = calls[h].options
       /\ (InBatchLoop(h) /\ handlers'[h].pc = "idle") => calls'[h].pc = "none"]_vars

\* C27 witness: an execution is in flight for a stage its batch staged over
\* the stage that was pending when the batch began.
C27_Witness ==
  \E h \in Handlers :
    /\ handlers[h].pc = "awaitBridge" /\ calls[h].pc = "sign"
    /\ Has(handlers[h].snap.pendingBridge)
    /\ Get(handlers[h].snap.pendingBridge) # Get(handlers[h].latestStage).payload
    /\ calls[h].options.amount = Get(handlers[h].latestStage).payload.amount

\* A batch that staged no bridge line ended without an execution.
C27_NothingStagedReached ==
  /\ lastLog = "commands processed."
  /\ \A h \in Handlers : calls[h].pc = "none"


\* ------------------------------------------------- busy flag properties
\* Handlers suspended inside runWithLock, and inside executeQueuedBridge.
Locking == {h \in Handlers : handlers[h].pc \in {"awaitCommand", "awaitDeploy"}}

Executing == {h \in Handlers : handlers[h].pc = "awaitBridge"}

\* C28: when the action wrapped by runWithLock settles, by returning or by
\* throwing, isLocked is cleared in the step that resumes its handler, and
\* when bridge() settles, fulfilled or rejected, isExecuting is cleared in the
\* step that resumes executeQueuedBridge; a flag is set only while a handler is
\* suspended on the action it wraps.
C28_FlagsReleased ==
  [][/\ \A h \in Locking : h \notin Locking' => ~isLocked'
     /\ \A h \in Executing : h \notin Executing' => ~isExecuting'
     /\ isLocked' => Locking' # {}
     /\ isExecuting' => Executing' # {}]_vars

\* C28 witness: a deploySpl threw as the first command of the first batch,
\* abandoning it before anything was logged, and the terminal is neither
\* locked nor executing.
C28_Witness ==
  /\ lastLog = "none" /\ lastClick = "dispatched"
  /\ \A h \in Handlers : handlers[h].pc = "idle"
  /\ ~isLocked /\ ~isExecuting

\* A bridge() rejected at broadcast and the terminal is not executing.
C28_ExecutionFailedReleased ==
  /\ lastLog = "Transaction broadcast failed."
  /\ \A h \in Handlers : handlers[h].pc = "idle"
  /\ ~isLocked /\ ~isExecuting


\* ------------------------------------------------- environment properties
\* C29: every bridge() call uses the preset, the connection and the
\* configuration of one environment from its first lookup to its submission.
C29_OneEnvironmentPerCall ==
  \A h \in Handlers : Cardinality(calls[h].envs) <= 1

\* A transaction went to the signer from a call that resolved its asset and
\* read the balance in one environment and was built and submitted under the
\* configuration of another.
C29_SubmittedAcrossEnvironments ==
  \E h \in Handlers :
    /\ calls[h].pc = "sign"
    /\ calls[h].envs = Environments


\* ------------------------------------------------- twin address properties
\* The twin address of the connected wallet on the current bridge contract.
CurrentTwin == PredictedTwin(Get(publicKey), environmentKey)

\* C30: the displayed twin address is that of the connected wallet on the
\* current bridge contract whenever one is displayed, and none is displayed
\* while no wallet is connected.
C30_TwinOfCurrentWallet ==
  /\ ~Has(publicKey) => twinAddress = None
  /\ (Has(publicKey) /\ Has(twinAddress)) => Get(twinAddress) = CurrentTwin

\* The parts of C30 the code keeps: a lookup that settles after the wallet or
\* the configuration changed writes nothing, only the lookup of the current
\* wallet and configuration is live, and without a wallet nothing is shown.
C30_StaleLookupsWriteNothing ==
  [][/\ \A l \in twinLookups :
          (l \notin twinLookups'
           /\ (~Has(publicKey) \/ PredictedTwin(l.sender, l.bridge) # CurrentTwin))
            => twinAddress' = twinAddress
     /\ \A l \in twinLookups' :
          ~l.cancelled => (Has(publicKey') /\ l.sender = Get(publicKey')
                           /\ l.bridge = environmentKey')
     /\ ~Has(publicKey') => twinAddress' = None]_vars

\* The twin address of wallet A is displayed while wallet B is connected and
\* the lookup for B is in flight.
C30_StaleTwinDisplayed ==
  /\ publicKey = Some(WalletB)
  /\ twinAddress = Some(PredictedTwin(WalletA, environmentKey))
  /\ [sender |-> WalletB, bridge |-> environmentKey, cancelled |-> FALSE] \in twinLookups

\* A cancelled lookup is still in flight while the twin address of the
\* current wallet is displayed.
C30_CancelledInFlight ==
  /\ Has(publicKey) /\ twinAddress = Some(CurrentTwin)
  /\ \E l \in twinLookups : l.cancelled

====
